---- MODULE Spec2Model ----
(***************************************************************************)
(* Model of the smoker controller back end (src/backend): the control      *)
(* loop task and its start/stop life cycle, the per-tick control           *)
(* strategies, the PID law, the alert engine and the cook/phase setpoint   *)
(* coordination.  Times are whole seconds, temperatures whole degrees C    *)
(* (setpoints whole degrees F); PID gains, integrator and outputs are held *)
(* in thousandths.                                                         *)
(***************************************************************************)
EXTENDS Integers, Sequences, FiniteSets, TLC

VARIABLES
    now,          \* wall clock (time.time() / datetime.utcnow()), seconds
    ctl,          \* SmokerController fields (controller.py:24-121)
    tasks,        \* control-loop tasks created by start(): slot -> state
    stop_waiting, \* slots awaited by a suspended stop() (controller.py:418)
    am,           \* AlertManager fields (alerts.py:20-33)
    db,           \* persistence: settings row, alert rows, smokes, phases
    obs,          \* history of the run: requests served, relay transitions,
                  \* duty-window tallies
    pm,           \* PhaseManager fields (phase_manager.py:19-26)
    ws            \* ConnectionManager and its WebSockets (ws/manager.py:19-25)

vars == <<now, ctl, tasks, stop_waiting, am, db, obs, pm, ws>>

----------------------------------------------------------------------------
(* Bounds of the model                                                     *)

MaxTime == 2          \* the clock stops advancing here (life-cycle runs)
MaxModesTime == 3     \* the clock stops advancing here (strategy runs)
MaxWindowTime == 7    \* the clock stops advancing here (duty-window runs)
MaxAlertTime == 3     \* the clock stops advancing here (alert runs)
MaxTasks == 2         \* control-task slots alive or awaited at once
MaxAlertRows == 2     \* Alert rows that persistence may hold
MaxRequests == 5      \* API requests served in a run
MaxConns == 3         \* WebSockets accepted in a run
MaxBroadcasts == 2    \* broadcasts in a run

----------------------------------------------------------------------------
(* Program constants                                                       *)

None == -1                    \* Python None for optional times/ids/temps
LoopInterval == 1             \* self._loop_interval
DebounceDuration == 5         \* AlertManager.debounce_duration
WebhookRateLimit == 60        \* AlertManager.webhook_rate_limit
WebhookTimeout == 10          \* httpx.AsyncClient(timeout=10.0)
HistoryWindowS == 120         \* stuck-high history cutoff (2 minutes)
RecentReadings == 10          \* stuck-high uses the last 10 readings
OutputMin == 0                \* PIDController.output_min, thousandths of %
OutputMax == 100000           \* PIDController.output_max, thousandths of %
IntegralLimit == 100000       \* PIDController.integral_limit, thousandths
WindowSize == 5               \* FilteredThermocoupleReader.WINDOW_SIZE
MaxTempJumpF == 8             \* MAX_TEMP_JUMP_F, degrees F
MaxRateFPerSec == 3           \* MAX_RATE_F_PER_SEC, degrees F per second
DoubleReadAgreeF == 2         \* double-read agreement, degrees F
MedianMinSamples == 3         \* window length from which the median is used
MinCycles == 3                \* PIDAutoTuner.min_cycles
MaxTimeMinutes == 30          \* PIDAutoTuner.max_time_minutes
EvaluationWindow == 300       \* AdaptivePIDController.evaluation_window
AdjustmentRate == 50          \* adjustment_rate 0.05, thousandths
MinKp == 1000                 \* gain bounds, thousandths
MaxKp == 15000
MinKi == 10
MaxKi == 1000
MinKd == 5000
MaxKd == 50000
AdjustmentCooldown == 600     \* AdaptivePIDController.adjustment_cooldown

AlertKeys == {"high_temp", "low_temp", "stuck_high", "sensor_fault",
              "hardware_fallback"}

Thermostat == "thermostat"
TimeProportional == "time_proportional"

Max(a, b) == IF a > b THEN a ELSE b
Min(a, b) == IF a < b THEN a ELSE b

\* dict item removal: del d[k]
DictDel(d, k) == [x \in (DOMAIN d) \ {k} |-> d[x]]
\* dict item assignment: d[k] = v
DictSet(d, k, v) == [x \in (DOMAIN d) \cup {k} |-> IF x = k THEN v ELSE d[x]]

----------------------------------------------------------------------------
(* Alert engine (core/alerts.py).  An evaluation state `a` carries the     *)
(* manager fields, the Alert rows and whether a webhook POST was issued.   *)

AlertRow(type, sev, t) ==
    [alert_type |-> type, severity |-> sev, active |-> TRUE,
     acknowledged |-> FALSE, ts |-> t, cleared_ts |-> None]

\* _send_webhook_by_id up to the POST: TRUE iff a POST is issued
WebhookIssued(m, url, t) ==
    /\ url
    /\ ~(m.last_webhook_time # None /\ t - m.last_webhook_time < WebhookRateLimit)

\* debounce test at the head of _create_alert
Debounced(m, key, t) ==
    /\ key \in DOMAIN m.debounce_timers
    /\ t - m.debounce_timers[key] < DebounceDuration

\* AlertManager._create_alert
CreateAlert(a, key, sev, t, url) ==
    IF Debounced(a.m, key, t) THEN a
    ELSE LET rows == Append(a.rows, AlertRow(key, sev, t))
             id == Len(rows)
             m1 == [a.m EXCEPT !.active_alerts = DictSet(@, key, id),
                               !.debounce_timers = DictSet(@, key, t)]
         IN [m |-> m1, rows |-> rows, post |-> WebhookIssued(m1, url, t)]

\* AlertManager._clear_alert
ClearAlertKey(a, key, t) ==
    IF key \notin DOMAIN a.m.active_alerts THEN a
    ELSE LET id == a.m.active_alerts[key]
             rows == IF id \in DOMAIN a.rows
                     THEN [a.rows EXCEPT ![id].active = FALSE,
                                         ![id].cleared_ts = t]
                     ELSE a.rows
         IN [a EXCEPT !.rows = rows,
                      !.m.active_alerts = DictDel(@, key),
                      !.m.debounce_timers = DictDel(@, key)]

\* _check_high_temp_alert
CheckHighTemp(a, st, t) ==
    IF st.current_temp_c = None THEN a
    ELSE IF st.current_temp_c >= st.hi_alarm_c
         THEN IF "high_temp" \notin DOMAIN a.m.active_alerts
              THEN CreateAlert(a, "high_temp", "error", t, st.webhook_url)
              ELSE a
         ELSE ClearAlertKey(a, "high_temp", t)

\* _check_low_temp_alert
CheckLowTemp(a, st, t) ==
    IF st.current_temp_c = None THEN a
    ELSE IF st.current_temp_c <= st.lo_alarm_c
         THEN IF "low_temp" \notin DOMAIN a.m.active_alerts
              THEN CreateAlert(a, "low_temp", "warning", t, st.webhook_url)
              ELSE a
         ELSE ClearAlertKey(a, "low_temp", t)

\* list slice xs[-n:]
LastN(xs, n) == IF Len(xs) <= n THEN xs ELSE SubSeq(xs, Len(xs) - n + 1, Len(xs))

\* _check_stuck_high_alert
CheckStuckHigh(a, st, t) ==
    IF st.current_temp_c = None THEN a
    ELSE
      LET appended == Append(a.m.temp_history, [t |-> t, temp |-> st.current_temp_c])
          hist == SelectSeq(appended, LAMBDA h : h.t > t - HistoryWindowS)
          a1 == [a EXCEPT !.m.temp_history = hist]
          recent == LastN(hist, RecentReadings)
          \* temp_rate_per_min > rate_threshold, cross-multiplied
          rising == (recent[Len(recent)].temp - recent[1].temp) * 60
                      > st.stuck_high_c * Len(recent)
      IN IF ~st.relay_state /\ Len(hist) >= 2
         THEN IF rising
              THEN IF "stuck_high" \notin DOMAIN a1.m.active_alerts
                   THEN CreateAlert(a1, "stuck_high", "error", t, st.webhook_url)
                   ELSE a1
              ELSE ClearAlertKey(a1, "stuck_high", t)
         ELSE a1

\* _check_sensor_fault_alert
CheckSensorFault(a, st, t) ==
    IF st.current_temp_c = None
    THEN IF "sensor_fault" \notin DOMAIN a.m.active_alerts
         THEN CreateAlert(a, "sensor_fault", "critical", t, st.webhook_url)
         ELSE a
    ELSE ClearAlertKey(a, "sensor_fault", t)

\* _check_hardware_fallback_alert
CheckHardwareFallback(a, st, t) ==
    IF ~st.sim_mode /\ st.using_fallback_simulation
    THEN IF st.fallback_tcs /\ "hardware_fallback" \notin DOMAIN a.m.active_alerts
         THEN CreateAlert(a, "hardware_fallback", "warning", t, st.webhook_url)
         ELSE a
    ELSE ClearAlertKey(a, "hardware_fallback", t)

NumChecks == 5

CheckStage(k, a, st, t) ==
    CASE k = 1 -> CheckHighTemp(a, st, t)
      [] k = 2 -> CheckLowTemp(a, st, t)
      [] k = 3 -> CheckStuckHigh(a, st, t)
      [] k = 4 -> CheckSensorFault(a, st, t)
      [] OTHER -> CheckHardwareFallback(a, st, t)

\* AlertManager.check_alerts from check k on, up to the first webhook POST
\* (where the coroutine suspends) or to its end; `stage` is the check that
\* issued the POST, 0 when check_alerts ran to completion.
RECURSIVE CheckAlertsFrom(_, _, _, _)
CheckAlertsFrom(k, a, st, t) ==
    IF k > NumChecks THEN [m |-> a.m, rows |-> a.rows, stage |-> 0]
    ELSE LET r == CheckStage(k, [a EXCEPT !.post = FALSE], st, t)
         IN IF r.post THEN [m |-> r.m, rows |-> r.rows, stage |-> k]
            ELSE CheckAlertsFrom(k + 1, r, st, t)

----------------------------------------------------------------------------
(* PID law (core/pid.py).  kp, ki, kd, _integral and outputs are in        *)
(* thousandths; errors are whole degrees and dt whole seconds.             *)

\* float division, truncated toward zero at the fixed-point resolution
TDiv(a, b) == IF (a >= 0) = (b > 0) THEN (IF a >= 0 THEN a ELSE -a) \div (IF b > 0 THEN b ELSE -b)
              ELSE -((IF a >= 0 THEN a ELSE -a) \div (IF b > 0 THEN b ELSE -b))

Clamp(x, lo, hi) == Max(lo, Min(hi, x))

Gains(p) == <<p.kp, p.ki, p.kd>>

\* PIDController.__init__
NewPID(kp, ki, kd) ==
    [kp |-> kp, ki |-> ki, kd |-> kd, last_error |-> 0, integral |-> 0,
     last_time |-> None, last_output |-> 0, last_setpoint |-> None,
     last_gains |-> <<>>]

\* PIDController._bumpless_transfer
BumplessTransfer(p, error) ==
    LET new_proportional == p.kp * error
        new_derivative == IF p.last_error # 0 THEN p.kd * (error - p.last_error) ELSE 0
        desired_integral == p.last_output - new_proportional - new_derivative
        integral == IF p.ki # 0 THEN TDiv(desired_integral * 1000, p.ki) ELSE 0
    IN [p EXCEPT !.integral = Clamp(integral, -IntegralLimit, IntegralLimit)]

\* PIDController.compute from the proportional term on (pid.py:82-105), on
\* the controller p1 left by the bumpless-transfer test
PIDUpdate(p1, error, dt, t) ==
    LET proportional == p1.kp * error
        integ == Clamp(p1.integral + 1000 * error * dt, -IntegralLimit, IntegralLimit)
        integral == TDiv(p1.ki * integ, 1000)
        derivative == TDiv(p1.kd * (error - p1.last_error), dt)
        output == Clamp(proportional + integral + derivative, OutputMin, OutputMax)
    IN [p1 EXCEPT !.integral = integ, !.last_error = error, !.last_time = t,
                  !.last_output = output]

\* PIDController.compute: the controller after the call; the returned output
\* is its last_output
PIDCompute(p, setpoint, current_value, t) ==
    IF p.last_time = None
    THEN [p EXCEPT !.last_time = t, !.last_setpoint = setpoint, !.last_gains = Gains(p)]
    ELSE IF t - p.last_time <= 0 THEN p
    ELSE PIDUpdate(IF p.last_setpoint # setpoint \/ p.last_gains # Gains(p)
                   THEN [BumplessTransfer(p, setpoint - current_value)
                           EXCEPT !.last_setpoint = setpoint, !.last_gains = Gains(p)]
                   ELSE p,
                   setpoint - current_value, t - p.last_time, t)

\* PIDController.reset
PIDReset(p) ==
    [p EXCEPT !.last_error = 0, !.integral = 0, !.last_time = None,
              !.last_output = 0, !.last_setpoint = None, !.last_gains = <<>>]

\* PIDController.set_gains
PIDSetGains(p, kp, ki, kd) == [p EXCEPT !.kp = kp, !.ki = ki, !.kd = kd]

----------------------------------------------------------------------------
(* Relay-step auto-tuner (core/pid_autotune.py)                            *)

TunerTerminal == {"idle", "succeeded", "failed"}

\* PIDAutoTuner.__init__ followed by start()
NewTuner(setpoint, output_step, lookback, noise_band, rule, t) ==
    [setpoint |-> setpoint, output_step |-> output_step,
     lookback_seconds |-> lookback, noise_band |-> noise_band,
     tuning_rule |-> rule, state |-> "relay_step_up", output |-> output_step,
     timestamps |-> <<>>, peaks |-> <<>>, cycle_count |-> 0,
     start_time |-> t, kp |-> None, ki |-> None, kd |-> None]

\* a cancel() that fails the tuner but leaves its output standing
TunerCancelKeepsOutput(tn) ==
    IF tn.state \notin TunerTerminal THEN [tn EXCEPT !.state = "failed"] ELSE tn

\* PIDAutoTuner.cancel
TunerCancel(tn) ==
    IF tn.state \notin TunerTerminal
    THEN [tn EXCEPT !.state = "failed", !.output = 0] ELSE tn

RECURSIVE SumSeq(_)
SumSeq(xs) == IF xs = <<>> THEN 0 ELSE Head(xs) + SumSeq(Tail(xs))

Abs(x) == IF x < 0 THEN -x ELSE x

\* indices range(2, len(peaks), 2), 1-based: 3, 5, ...
Periods(peaks) ==
    [j \in 1..((Len(peaks) - 1) \div 2) |-> peaks[2 * j + 1].t - peaks[2 * j - 1].t]

RECURSIVE Amplitudes(_, _)
Amplitudes(peaks, i) ==
    IF i > Len(peaks) THEN <<>>
    ELSE IF peaks[i].type # peaks[i - 1].type
         THEN <<Abs(peaks[i].v - peaks[i - 1].v)>> \o Amplitudes(peaks, i + 1)
         ELSE Amplitudes(peaks, i + 1)

\* PIDAutoTuner._apply_tuning_rule, gains in thousandths from ku and pu in
\* thousandths
ApplyTuningRule(rule, ku, pu) ==
    CASE rule = "ziegler_nichols_pid" ->
           LET kp == TDiv(600 * ku, 1000)
           IN <<kp, TDiv(2000 * kp, pu), TDiv(kp * pu, 8000)>>
      [] rule = "ziegler_nichols_pi" ->
           LET kp == TDiv(450 * ku, 1000) IN <<kp, TDiv(1200 * kp, pu), 0>>
      [] rule = "ziegler_nichols_p" ->
           LET kp == TDiv(500 * ku, 1000) IN <<kp, 0, 0>>
      [] rule = "tyreus_luyben" ->
           LET kp == TDiv(450 * ku, 1000)
           IN <<kp, TDiv(2200 * kp, pu), TDiv(kp * pu, 6300)>>
      [] rule = "ciancone_marlin" ->
           LET kp == TDiv(303 * ku, 1000)
           IN <<kp, TDiv(370 * kp, pu), TDiv(kp * pu, 1190)>>
      [] rule = "pessen_integral" ->
           LET kp == TDiv(700 * ku, 1000)
           IN <<kp, TDiv(2500 * kp, pu), TDiv(TDiv(150 * kp, 1000) * pu, 1000)>>
      [] rule = "some_overshoot" ->
           LET kp == TDiv(330 * ku, 1000)
           IN <<kp, TDiv(2000 * kp, pu), TDiv(kp * pu, 3000)>>
      [] rule = "no_overshoot" ->
           LET kp == TDiv(200 * ku, 1000)
           IN <<kp, TDiv(2000 * kp, pu), TDiv(kp * pu, 3000)>>
      [] OTHER ->
           LET kp == TDiv(600 * ku, 1000)
           IN <<kp, TDiv(2000 * kp, pu), TDiv(kp * pu, 8000)>>

\* PIDAutoTuner._calculate_gains: the tuner with its results, `ok` its return
CalculateGains(tn) ==
    LET periods == Periods(tn.peaks)
        amplitudes == Amplitudes(tn.peaks, 2)
    IN IF Len(tn.peaks) < MinCycles * 2 \/ periods = <<>> \/ amplitudes = <<>>
       THEN [tn |-> tn, ok |-> FALSE]
       ELSE LET pu == TDiv(1000 * SumSeq(periods), Len(periods))
                avg_amplitude == TDiv(1000 * SumSeq(amplitudes), Len(amplitudes))
                \* ku = 4 d / (pi a) in thousandths, pi taken as 3.142
                ku == TDiv(4 * tn.output_step * 1000000, TDiv(3142 * avg_amplitude, 1000))
                g == ApplyTuningRule(tn.tuning_rule, ku, pu)
            IN [tn |-> [tn EXCEPT !.kp = g[1], !.ki = g[2], !.kd = g[3]], ok |-> TRUE]

\* PIDAutoTuner.update once a minimum peak closed a cycle
\* (pid_autotune.py:205-216)
TunerCycle(t2) ==
    IF t2.cycle_count >= MinCycles /\ CalculateGains(t2).ok
    THEN [tn |-> [CalculateGains(t2).tn EXCEPT !.state = "succeeded", !.output = 0],
          complete |-> TRUE]
    ELSE [tn |-> t2, complete |-> FALSE]

\* PIDAutoTuner.update after the lookback trim (pid_autotune.py:180-218):
\* _detect_peak and the relay step it selects
TunerSample(t1, current_value, t) ==
    IF Len(t1.timestamps) < 2 THEN [tn |-> t1, complete |-> FALSE]
    ELSE IF t1.state = "relay_step_up" /\ current_value > t1.setpoint + t1.noise_band
    THEN [tn |-> [t1 EXCEPT !.state = "relay_step_down", !.output = 0,
                            !.peaks = Append(@, [t |-> t, v |-> current_value, type |-> 1])],
          complete |-> FALSE]
    ELSE IF t1.state = "relay_step_down" /\ current_value < t1.setpoint - t1.noise_band
    THEN TunerCycle([t1 EXCEPT !.state = "relay_step_up", !.output = t1.output_step,
                               !.peaks = Append(@, [t |-> t, v |-> current_value, type |-> -1]),
                               !.cycle_count = @ + 1])
    ELSE [tn |-> t1, complete |-> FALSE]

\* an update() without the time limit
TunerUpdateNoTimeout(tn, current_value, t) ==
    IF tn.state \in TunerTerminal
    THEN [tn |-> tn, complete |-> tn.state \in {"succeeded", "failed"}]
    ELSE TunerSample([tn EXCEPT !.timestamps =
                        SelectSeq(Append(@, t), LAMBDA x : ~(x < t - tn.lookback_seconds))],
                     current_value, t)

\* PIDAutoTuner.update: the tuner after the call and is_complete
TunerUpdate(tn, current_value, t) ==
    IF tn.state \in TunerTerminal
    THEN [tn |-> tn, complete |-> tn.state \in {"succeeded", "failed"}]
    ELSE IF t - tn.start_time > MaxTimeMinutes * 60
    THEN [tn |-> [tn EXCEPT !.state = "failed", !.output = 0], complete |-> TRUE]
    ELSE TunerSample([tn EXCEPT !.timestamps =
                        SelectSeq(Append(@, t), LAMBDA x : ~(x < t - tn.lookback_seconds))],
                     current_value, t)

\* PIDAutoTuner.get_gains: <<>> stands for None; all([kp, ki, kd]) is false
\* when a gain is 0
TunerGetGains(tn) ==
    IF tn.state = "succeeded" /\ tn.kp # 0 /\ tn.ki # 0 /\ tn.kd # 0
    THEN <<tn.kp, tn.ki, tn.kd>> ELSE <<>>

----------------------------------------------------------------------------
(* Controller (core/controller.py).  Operators take the controller record  *)
(* c and return it as the method leaves it.                                *)

NoTuner == [state |-> "none"]            \* self.autotuner = None
HasTuner(c) == c.autotuner.state # "none"

\* Python truthiness of an optional wall-clock time
Truthy(x) == x # None /\ x # 0

\* settings.fahrenheit_to_celsius
FahrenheitToCelsius(f) == TDiv((f - 32) * 5, 9)

\* SmokerController.set_setpoint
SetSetpoint(c, setpoint_f) ==
    [c EXCEPT !.setpoint_f = setpoint_f,
              !.setpoint_c = FahrenheitToCelsius(setpoint_f)]

\* self.set_setpoint(...) called without await (controller.py:322, 344, 390):
\* the coroutine object is created and dropped, its body never runs
SetSetpointNotAwaited(c, setpoint_f) == c

\* SmokerController._set_relay_state
SetRelayState(c, state) ==
    IF state # c.relay_state
    THEN [c EXCEPT !.driver_state = state, !.relay_state = state]
    ELSE c

\* SmokerController._apply_relay_with_timing
ApplyRelayWithTiming(c, desired_state, t) ==
    IF desired_state /\ ~c.relay_state
    THEN IF Truthy(c.last_off_time) /\ (t - c.last_off_time) < c.min_off_s
         THEN c
         ELSE [SetRelayState(c, TRUE) EXCEPT !.last_on_time = t]
    ELSE IF ~desired_state /\ c.relay_state
    THEN IF Truthy(c.last_on_time) /\ (t - c.last_on_time) < c.min_on_s
         THEN c
         ELSE [SetRelayState(c, FALSE) EXCEPT !.last_off_time = t]
    ELSE c

\* a thermostat that switches at the setpoint, without the hysteresis band
ThermostatNoBand(c, temp_c, t) ==
    ApplyRelayWithTiming([c EXCEPT !.output_bool = temp_c < c.setpoint_c,
                                   !.pid_output = IF temp_c < c.setpoint_c
                                                  THEN 100000 ELSE 0],
                         temp_c < c.setpoint_c, t)

\* SmokerController._thermostat_control
ThermostatControl(c, temp_c, t) ==
    LET ob == IF c.output_bool THEN temp_c < c.setpoint_c + c.hyst_c
              ELSE temp_c < c.setpoint_c - c.hyst_c
        c1 == [c EXCEPT !.output_bool = ob,
                        !.pid_output = IF ob THEN 100000 ELSE 0]
    IN ApplyRelayWithTiming(c1, ob, t)

\* AdaptivePIDController.record_sample: the deques keep evaluation_window
\* items; a sample is the pair (temp, setpoint), its error setpoint - temp
RecordSample(ad, temp, setpoint) ==
    IF ad.enabled
    THEN [ad EXCEPT !.samples =
             IF Len(@) >= EvaluationWindow
             THEN Append(Tail(@), [temp |-> temp, setpoint |-> setpoint])
             ELSE Append(@, [temp |-> temp, setpoint |-> setpoint])]
    ELSE ad

\* a should_adjust that does not look at the time of the last adjustment
ShouldAdjustNoCooldown(ad, t) ==
    /\ ad.enabled
    /\ ~(10 * Len(ad.samples) < EvaluationWindow * 8)

\* AdaptivePIDController.should_adjust
ShouldAdjust(ad, t) ==
    /\ ad.enabled
    /\ ~(10 * Len(ad.samples) < EvaluationWindow * 8)
    /\ ~(ad.last_adjustment_time # None
         /\ t - ad.last_adjustment_time < AdjustmentCooldown)

SampleError(x) == x.setpoint - x.temp

\* sum(errors) over positions lo..hi, by halves
RECURSIVE SumErrors(_, _, _)
SumErrors(xs, lo, hi) ==
    IF lo > hi THEN 0
    ELSE IF lo = hi THEN SampleError(xs[lo])
    ELSE SumErrors(xs, lo, (lo + hi) \div 2) + SumErrors(xs, (lo + hi) \div 2 + 1, hi)

\* sum(abs(e) for e in errors) over positions lo..hi, by halves
RECURSIVE SumAbsErrors(_, _, _)
SumAbsErrors(xs, lo, hi) ==
    IF lo > hi THEN 0
    ELSE IF lo = hi THEN Abs(SampleError(xs[lo]))
    ELSE SumAbsErrors(xs, lo, (lo + hi) \div 2)
           + SumAbsErrors(xs, (lo + hi) \div 2 + 1, hi)

\* the positions at which the error changes sign against its predecessor
ZeroCrossings(xs) ==
    Cardinality({i \in 2..Len(xs) :
                    (SampleError(xs[i]) > 0) # (SampleError(xs[i - 1]) > 0)})

\* the 0-based positions whose error exceeds 0.5 C
Unsettled(xs) == {i - 1 : i \in {j \in 1..Len(xs) : 2 * Abs(SampleError(xs[j])) > 1}}

\* settling_time: the last such position, 0 if there is none
SettlingTime(xs) ==
    IF Unsettled(xs) = {} THEN 0
    ELSE CHOOSE i \in Unsettled(xs) : \A j \in Unsettled(xs) : j <= i

\* AdaptivePIDController._calculate_metrics, as the sums and counts the
\* comparisons of _decide_adjustment need
CalculateMetrics(xs) ==
    [len |-> Len(xs), sum_error |-> SumErrors(xs, 1, Len(xs)),
     sum_abs_error |-> SumAbsErrors(xs, 1, Len(xs)),
     zero_crossings |-> ZeroCrossings(xs),
     overshoot_detected |-> \E i \in 1..Len(xs) : Abs(xs[i].temp - xs[i].setpoint) > 2,
     settling_time |-> SettlingTime(xs)]

\* oscillation_score = min(1, zero_crossings / (len * 0.1)) against a
\* threshold in hundredths
OscillationAbove(m, h) == 1000 * m.zero_crossings > h * m.len
OscillationBelow(m, h) == 1000 * m.zero_crossings < h * m.len

\* AdaptivePIDController._decide_adjustment: the proposed gains, <<>> for None
DecideAdjustment(m, kp, ki, kd) ==
    IF OscillationAbove(m, 60)
    THEN <<TDiv(kp * (1000 - AdjustmentRate), 1000), ki,
           TDiv(kd * (2000 - AdjustmentRate), 2000)>>
    ELSE IF m.overshoot_detected /\ 10 * kd < MaxKd * 9
    THEN <<TDiv(kp * (10000 - 3 * AdjustmentRate), 10000), ki,
           TDiv(kd * (1000 + AdjustmentRate), 1000)>>
    ELSE IF Abs(m.sum_error) > m.len /\ 10 * ki < MaxKi * 9 /\ OscillationBelow(m, 30)
    THEN <<kp, TDiv(ki * (2000 + AdjustmentRate), 2000), kd>>
    ELSE IF m.settling_time > 200 /\ 10 * m.sum_abs_error > 15 * m.len
            /\ OscillationBelow(m, 30)
    THEN <<TDiv(kp * (1000 + AdjustmentRate), 1000), ki, kd>>
    ELSE <<>>

\* evaluate_and_adjust, the gain bounds (adaptive_pid.py:164-167)
ApplyBounds(g) ==
    <<Clamp(g[1], MinKp, MaxKp), Clamp(g[2], MinKi, MaxKi), Clamp(g[3], MinKd, MaxKd)>>

\* evaluate_and_adjust once should_adjust passed, given the proposal g
Adjusted(ad, g, t) ==
    IF g = <<>> THEN [ad |-> ad, gains |-> <<>>]
    ELSE [ad |-> [ad EXCEPT !.last_adjustment_time = t, !.adjustment_count = @ + 1],
          gains |-> ApplyBounds(g)]

\* AdaptivePIDController.evaluate_and_adjust: the tuner after the call and
\* the gains it returns, <<>> for None
EvaluateAndAdjust(ad, kp, ki, kd, t) ==
    IF ~ShouldAdjust(ad, t) THEN [ad |-> ad, gains |-> <<>>]
    ELSE Adjusted(ad, DecideAdjustment(CalculateMetrics(ad.samples), kp, ki, kd), t)

\* _time_proportional_control, first window (controller.py:912-915)
WindowOpen(c, out, t) ==
    IF c.window_start_time = None
    THEN [c EXCEPT !.window_start_time = t,
                   !.window_on_duration = out * c.time_window_s]
    ELSE c

\* _time_proportional_control, window rollover (controller.py:918-923)
WindowRollover(c, out, t) ==
    IF t - c.window_start_time >= c.time_window_s
    THEN [c EXCEPT !.window_start_time = t,
                   !.window_on_duration = out * c.time_window_s]
    ELSE c

\* a relay decision that compares the elapsed time with the duty itself
\* rather than with the ON duration
WindowDriveUnscaled(c, t) ==
    SetRelayState([c EXCEPT !.output_bool =
                       (t - c.window_start_time) * 100000 < c.pid_output],
                  (t - c.window_start_time) * 100000 < c.pid_output)

\* _time_proportional_control, relay decision (controller.py:925-932)
WindowDrive(c, t) ==
    SetRelayState([c EXCEPT !.output_bool =
                       (t - c.window_start_time) * 100000 < c.window_on_duration],
                  (t - c.window_start_time) * 100000 < c.window_on_duration)

\* _time_proportional_control once the PID law has run (controller.py:907-932)
WindowControl(c, t) ==
    WindowDrive(WindowRollover(WindowOpen(c, c.pid_output, t), c.pid_output, t), t)

\* the PID law's result stored by _time_proportional_control
WithPidOutput(c, pid) == [c EXCEPT !.pid = pid, !.pid_output = pid.last_output]

\* SmokerController._time_proportional_control.  window_on_duration holds
\* pid_output (thousandths of %) times time_window_s, i.e. the ON duration in
\* units of 1e-5 s.  The adaptive evaluation needs a buffer 80% full (240
\* samples) before it can suggest an adjustment.
TimeProportionalLaw(c, temp_c, t) ==
    WindowControl(WithPidOutput(c, PIDCompute(c.pid, c.setpoint_c, temp_c, t)), t)

\* SmokerController.set_pid_gains
SetPidGains(c, kp, ki, kd) == [c EXCEPT !.pid = PIDSetGains(@, kp, ki, kd)]

\* _time_proportional_control, the adaptive tuner's result r applied to the
\* pair (controller, settings row) (controller.py:882-903)
AdaptiveApplied(cs, r) ==
    IF r.gains = <<>> THEN [cs EXCEPT !.c.adaptive_pid = r.ad]
    ELSE [c |-> [SetPidGains(cs.c, r.gains[1], r.gains[2], r.gains[3])
                   EXCEPT !.adaptive_pid = r.ad],
          set |-> [cs.set EXCEPT !.kp = r.gains[1], !.ki = r.gains[2],
                                 !.kd = r.gains[3]]]

\* _time_proportional_control, sample and evaluation (controller.py:871-880)
AdaptiveStep(cs, temp_c, t) ==
    IF cs.c.autotune_active THEN cs
    ELSE AdaptiveApplied(cs, EvaluateAndAdjust(
                                 RecordSample(cs.c.adaptive_pid, temp_c, cs.c.setpoint_c),
                                 cs.c.pid.kp, cs.c.pid.ki, cs.c.pid.kd, t))

\* the PID law and duty window on the pair left by the adaptive step
LawOn(cs, temp_c, t) == [cs EXCEPT !.c = TimeProportionalLaw(@, temp_c, t)]

TimeProportionalControl(cs, temp_c, t) == LawOn(AdaptiveStep(cs, temp_c, t), temp_c, t)

\* the state and output of the tuner object a run let go of with
\* `self.autotuner = None`; none before the first run ends
NoRelease == [state |-> "none", output |-> 0]
Released(tn) == [state |-> tn.state, output |-> tn.output]

\* SmokerController.cancel_autotune
CancelAutotune(c) ==
    IF ~c.autotune_active \/ ~HasTuner(c) THEN c
    ELSE [c EXCEPT !.autotune_active = FALSE, !.autotuner = NoTuner,
                   !.released = Released(TunerCancel(c.autotuner))]

\* SmokerController.apply_autotune_gains on the pair (controller, settings row)
ApplyAutotuneGains(cs) ==
    LET gains == TunerGetGains(cs.c.autotuner)
    IN IF ~HasTuner(cs.c) \/ gains = <<>> THEN cs
       ELSE [c |-> [SetPidGains(cs.c, gains[1], gains[2], gains[3])
                      EXCEPT !.autotune_active = FALSE, !.autotuner = NoTuner,
                             !.autotune_auto_apply = TRUE,
                             !.released = Released(cs.c.autotuner)],
             set |-> [cs.set EXCEPT !.kp = gains[1], !.ki = gains[2], !.kd = gains[3]]]

\* _autotune_control, completion handling (controller.py:957-989)
AutotuneOutcome(cs, u) ==
    IF ~u.complete THEN cs
    ELSE IF u.tn.state = "succeeded"
    THEN IF TunerGetGains(u.tn) # <<>> /\ cs.c.autotune_auto_apply
         THEN ApplyAutotuneGains(cs)
         ELSE cs
    ELSE [cs EXCEPT !.c.autotune_active = FALSE, !.c.autotuner = NoTuner,
                    !.c.released = Released(u.tn)]

\* _autotune_control, relay command from the tuner's output
\* (controller.py:944-955)
AutotuneDrive(c, tn) ==
    SetRelayState([c EXCEPT !.autotuner = tn, !.output_bool = tn.output > 0,
                            !.pid_output = tn.output * 1000],
                  tn.output > 0)

\* _autotune_control given the tuner's update u
AutotuneStep(cs, u) == AutotuneOutcome([cs EXCEPT !.c = AutotuneDrive(@, u.tn)], u)

\* SmokerController._autotune_control on the pair (controller, settings row)
AutotuneControl(cs, temp_c, t) ==
    AutotuneStep(cs, TunerUpdate(cs.c.autotuner, temp_c, t))

\* the control thermocouple's entry of tc_readings, as _control_iteration
\* selects it: (None, fault) when the id is unset or has no entry
ControlReading(c) ==
    IF c.control_tc_id # None /\ c.control_tc_id \in DOMAIN c.tc_readings
    THEN c.tc_readings[c.control_tc_id]
    ELSE [temp_c |-> None, fault |-> TRUE]

ControlFault(c) == ControlReading(c).temp_c = None \/ ControlReading(c).fault

\* a sensor-fault branch that clears output_bool but sends no relay command
FaultKeepsRelay(c) ==
    IF c.autotune_active THEN CancelAutotune([c EXCEPT !.output_bool = FALSE])
    ELSE [c EXCEPT !.output_bool = FALSE]

\* _control_iteration, sensor-fault branch (controller.py:796-809)
FaultBranch(c) ==
    LET c1 == [c EXCEPT !.driver_state = FALSE, !.relay_state = FALSE,
                        !.output_bool = FALSE]
    IN IF c1.autotune_active THEN CancelAutotune(c1) ELSE c1

\* SmokerController.disable_boost
DisableBoost(c) == [c EXCEPT !.boost_active = FALSE, !.boost_until = None]

\* a tick that never ends boost
BoostNeverExpires(c, t) == c

\* _control_iteration, boost expiry (controller.py:813-815)
ExpireBoost(c, t) ==
    IF c.boost_active /\ c.boost_until # None /\ t >= c.boost_until
    THEN DisableBoost(c) ELSE c

\* _control_iteration, choice of the commanding strategy (controller.py:817-832)
Strategy(cs, temp_c, t) ==
    LET c == cs.c
    IN IF c.autotune_active /\ HasTuner(c) THEN AutotuneControl(cs, temp_c, t)
       ELSE IF c.boost_active
       THEN [cs EXCEPT !.c = SetRelayState([c EXCEPT !.output_bool = TRUE], TRUE)]
       ELSE IF c.control_mode = Thermostat
       THEN [cs EXCEPT !.c = ThermostatControl(c, temp_c, t)]
       ELSE TimeProportionalControl(cs, temp_c, t)

\* a tick that ran a strategy
Decided(cs) == [c |-> cs.c, set |-> cs.set, fault |-> FALSE]

\* _control_iteration up to the reading log (controller.py:784-832); `fault`
\* tells that the tick returned from the sensor-fault branch
ControlDecision(cs, t) ==
    IF ControlFault(cs.c)
    THEN [c |-> FaultBranch(cs.c), set |-> cs.set, fault |-> TRUE]
    ELSE Decided(Strategy([cs EXCEPT !.c = ExpireBoost(@, t)],
                          ControlReading(cs.c).temp_c, t))

\* SmokerController.get_status, the fields the alert checks read, with the
\* thresholds and webhook URL the checks load from the settings row
Status(c, set) ==
    [current_temp_c |-> c.current_temp_c, relay_state |-> c.relay_state,
     sim_mode |-> c.sim_mode,
     using_fallback_simulation |-> c.using_fallback,
     fallback_tcs |-> c.using_fallback,
     hi_alarm_c |-> set.hi_alarm_c, lo_alarm_c |-> set.lo_alarm_c,
     stuck_high_c |-> set.stuck_high_c, webhook_url |-> set.webhook_url]

\* the status dict of a suspended check_alerts, with the settings its next
\* checks load
Reloaded(st, set) ==
    [st EXCEPT !.hi_alarm_c = set.hi_alarm_c, !.lo_alarm_c = set.lo_alarm_c,
               !.stuck_high_c = set.stuck_high_c, !.webhook_url = set.webhook_url]

----------------------------------------------------------------------------
(* State after construction                                                *)

\* temperatures the control thermocouple reports, degrees C
Temps == {96, 104}

\* the settings row (db/models.py Settings): setpoint 212 F = 100 C
DefaultSettings ==
    [setpoint_f |-> 212, kp |-> 4000, ki |-> 100, kd |-> 20000,
     control_mode |-> Thermostat, min_on_s |-> 2, min_off_s |-> 3,
     hyst_c |-> 2, time_window_s |-> 3, hi_alarm_c |-> 104, lo_alarm_c |-> 66,
     stuck_high_c |-> 2, sim_mode |-> TRUE, webhook_url |-> TRUE,
     adaptive_pid_enabled |-> TRUE, gpio_pin |-> 17, relay_active_high |-> FALSE]

\* FilteredThermocoupleReader.__init__ for the control thermocouple;
\* temperatures of the reader are hundredths of a degree C
NewReader ==
    [window |-> <<>>, last_good_reading |-> None, last_reading_time |-> None,
     outliers_rejected |-> 0, faults_detected |-> 0]

\* SmokerController.__init__ over a settings row
NewController(set) ==
    [running |-> FALSE, boost_active |-> FALSE, boost_until |-> None,
     sim_mode |-> set.sim_mode, using_fallback |-> FALSE, gpio_device |-> FALSE,
     driver_pin |-> IF set.sim_mode THEN None ELSE set.gpio_pin,
     driver_active_high |-> ~set.sim_mode /\ set.relay_active_high,
     control_tc_id |-> 1, tc_readings |-> <<>>,
     pid |-> NewPID(set.kp, set.ki, set.kd),
     control_mode |-> set.control_mode,
     setpoint_f |-> set.setpoint_f,
     setpoint_c |-> FahrenheitToCelsius(set.setpoint_f),
     current_temp_c |-> None, pid_output |-> 0, relay_state |-> FALSE,
     output_bool |-> FALSE, driver_state |-> FALSE,
     last_on_time |-> None, last_off_time |-> None,
     min_on_s |-> set.min_on_s, min_off_s |-> set.min_off_s,
     hyst_c |-> set.hyst_c, time_window_s |-> set.time_window_s,
     window_start_time |-> None, window_on_duration |-> 0,
     active_smoke_id |-> None, control_task |-> None, monitoring_wake |-> 1,
     autotuner |-> NoTuner, autotune_active |-> FALSE,
     autotune_auto_apply |-> TRUE, released |-> NoRelease,
     reader |-> NewReader,
     adaptive_pid |-> [enabled |-> set.adaptive_pid_enabled
                                   /\ set.control_mode = TimeProportional,
                       samples |-> <<>>, last_adjustment_time |-> None,
                       adjustment_count |-> 0]]

\* the WebSocket objects the server may accept in a run
Conns == 1..MaxConns

\* a broadcast call: not running ("idle") or suspended in send_text to
\* `current`; `index` is the position of the list iterator, `to_remove` the
\* local connections_to_remove
IdleBroadcast == [pc |-> "idle", index |-> 0, current |-> None, to_remove |-> <<>>]

\* ConnectionManager.__init__, with the client_state of every WebSocket
NewConnectionManager ==
    [active_connections |-> <<>>, client_state |-> [c \in Conns |-> "connecting"],
     bc |-> IdleBroadcast]

\* PhaseManager.__init__: no stability history for any smoke
NewPhaseManager == [stability_history |-> <<>>]

\* AlertManager.__init__
NewAlertManager ==
    [active_alerts |-> <<>>, debounce_timers |-> <<>>,
     last_webhook_time |-> None, temp_history |-> <<>>]

NoStatus == Status(NewController(DefaultSettings), DefaultSettings)

\* a free control-task slot
IdleTask ==
    [pc |-> "none", wake |-> None, tick_start |-> None, stage |-> 0,
     post_start |-> None, cancel |-> FALSE, failed |-> FALSE, st |-> NoStatus]

Slots == 1..MaxTasks

\* which branch of _control_iteration a tick takes (controller.py:796-832)
TickKind(c, t) ==
    IF ControlFault(c) THEN "fault"
    ELSE LET c1 == ExpireBoost(c, t)
         IN IF c1.autotune_active /\ HasTuner(c1) THEN "autotune"
            ELSE IF c1.boost_active THEN "boost"
            ELSE c1.control_mode

NoWindow == [start |-> None, length |-> 0, on_duration |-> 0, on_ticks |-> 0,
             ticks |-> 0, tp_ticks |-> 0]

\* the Reading and ThermocoupleReading tables (db/models.py): how many
\* Reading rows are committed, how many of them have their channel rows, and
\* the tick of the newest Reading
NoReadings == [rows |-> 0, with_channels |-> 0, last_tick |-> None]

\* how a tick's _log_reading can end: both commits succeed, the Reading's
\* commit raises, or the commit of the channel rows raises
LogOutcomes == {"committed", "reading_fails", "channels_fail"}

\* SmokerController._log_reading at tick t on the store d: the Reading is
\* committed (controller.py:1036), then the channel rows are added and
\* committed (controller.py:1040-1052); an exception is logged and swallowed
LogReading(d, out, t) ==
    IF out = "reading_fails" THEN d
    ELSE [d EXCEPT !.readings = [rows |-> @.rows + 1,
                                 with_channels |-> IF out = "committed"
                                                   THEN @.with_channels + 1
                                                   ELSE @.with_channels,
                                 last_tick |-> t]]

\* nothing observed yet
\* history of the latest broadcast: the observers attached from its start
\* on, those it tried, those that failed, and the list it left on return
NoBroadcast ==
    [returned |-> FALSE, attached |-> {}, tried |-> {}, failed |-> {}, left |-> {}]

\* history of the latest read_filtered call: the raw samples the sensor gave
\* to its first and second _read_raw, and what the call returned
NoRead == [raw |-> <<>>, temp |-> None, fault |-> FALSE]

NoHistory ==
    [requests |-> 0, last_tick |-> "none", relay_before |-> FALSE,
     off_at |-> None,
     on_at |-> None, on_ticks |-> 0, ticks |-> 0, tp_ticks |-> 0,
     closed |-> NoWindow, post_at |-> None, prev_post_at |-> None,
     ready |-> 0, ready_at |-> None, request |-> "none", good_since |-> None,
     tune_gains |-> <<>>, alerts_at |-> None, compute |-> <<>>,
     broadcasts |-> 0, broadcast |-> NoBroadcast,
     reads |-> 0, read |-> NoRead]

\* history after an alert evaluation r that ran at t: a suspended evaluation
\* (stage # 0) has just issued a webhook POST
ObservePost(o, r, t) ==
    IF r.stage # 0 THEN [o EXCEPT !.prev_post_at = o.post_at, !.post_at = t]
    ELSE o

\* history after a phase check ph: phase_transition_ready events emitted
ObservePhase(o, ph, t) ==
    IF ph.ready THEN [o EXCEPT !.ready = @ + 1, !.ready_at = t] ELSE o

\* an API request is served
Served(o) == [o EXCEPT !.requests = @ + 1, !.request = "other"]

\* a phase request (approve, skip, pause, resume, create) is served
ServedAs(o, name) == [o EXCEPT !.requests = @ + 1, !.request = name]

\* relay transitions between controller states c and c2 at time t
Transitions(o, c, c2, t) ==
    [o EXCEPT !.off_at = IF c.relay_state /\ ~c2.relay_state THEN t ELSE @,
              !.on_at = IF ~c.relay_state /\ c2.relay_state THEN t ELSE @]

\* history after a tick of branch `kind` took the controller from c to c2:
\* the tallies of the duty window in progress count the ticks since its
\* window_start, and `closed` keeps those of the window a tick rolled over
ObserveTick(o, c, c2, t, kind) ==
    LET o1 == [Transitions(o, c, c2, t) EXCEPT
                  !.last_tick = kind,
                  !.relay_before = c.relay_state,
                  !.good_since = IF kind = "fault" THEN None
                                 ELSE IF @ = None THEN t ELSE @]
        on == IF c2.relay_state THEN 1 ELSE 0
        tp == IF kind = TimeProportional THEN 1 ELSE 0
    IN IF c2.window_start_time # c.window_start_time
       THEN [o1 EXCEPT !.on_ticks = on, !.ticks = 1, !.tp_ticks = tp,
                       !.closed = IF c.window_start_time = None THEN NoWindow
                                  ELSE [start |-> c.window_start_time,
                                        length |-> t - c.window_start_time,
                                        on_duration |-> c.window_on_duration,
                                        on_ticks |-> o.on_ticks,
                                        ticks |-> o.ticks,
                                        tp_ticks |-> o.tp_ticks]]
       ELSE IF c2.window_start_time = None THEN o1
       ELSE [o1 EXCEPT !.on_ticks = @ + on, !.ticks = @ + 1, !.tp_ticks = @ + tp]

Init ==
    /\ now = 1
    /\ db = [settings |-> DefaultSettings, alerts |-> <<>>,
             smokes |-> <<>>, phases |-> <<>>, readings |-> NoReadings]
    /\ ctl = NewController(DefaultSettings)
    /\ tasks = [i \in Slots |-> IdleTask]
    /\ stop_waiting = {}
    /\ am = NewAlertManager
    /\ obs = NoHistory
    /\ pm = NewPhaseManager
    /\ ws = NewConnectionManager

----------------------------------------------------------------------------
(* The control-loop task and its life cycle (controller.py:357-425,        *)
(* 762-842).  A task is at "top" when it is about to test `while           *)
(* self.running`, at "sleep" in asyncio.sleep, at "post" inside the        *)
(* webhook POST awaited by check_alerts, "done" when it finished while a   *)
(* stop() awaits it.                                                       *)

Alive(i) == tasks[i].pc \in {"top", "sleep", "post"}

FreeSlots == {i \in Slots : tasks[i].pc = "none" /\ i \notin stop_waiting}

\* the current phase's target of the active cook, None without one
\* (phase_manager.get_current_phase)
CurrentPhaseTarget(d, smoke_id) ==
    IF smoke_id # None /\ smoke_id \in DOMAIN d.smokes
       /\ d.smokes[smoke_id].current_phase_id # None
    THEN d.phases[d.smokes[smoke_id].current_phase_id].target_temp_f
    ELSE None

\* settings.celsius_to_fahrenheit, in tenths of a degree Fahrenheit (exact
\* for a reading in whole degrees Celsius)
CelsiusToFahrenheit(temp_c) == temp_c * 18 + 320

\* completion_conditions without any key
NoConditions ==
    [max_duration_min |-> None, stability_range_f |-> None,
     stability_duration_min |-> None]

\* the bound of the stability deque
StabilityMaxLen == 100

\* deque.append on deque(maxlen=100): the oldest entry falls out when full
DequeAppend(h, x) ==
    IF Len(h) >= StabilityMaxLen THEN Append(Tail(h), x) ELSE Append(h, x)

\* `while history and history[0][0] < cutoff_time: history.popleft()`
RECURSIVE DropOlder(_, _)
DropOlder(h, cutoff) ==
    IF h # <<>> /\ Head(h).t < cutoff THEN DropOlder(Tail(h), cutoff) ELSE h

\* _stability_history[smoke_id], empty before the first check
StabilityHistory(p, smoke_id) ==
    IF smoke_id \in DOMAIN p.stability_history
    THEN p.stability_history[smoke_id] ELSE <<>>

\* the verdict of _check_temperature_stability over the pruned history h
StableOver(h, target_f, range_f, duration_min, t) ==
    /\ h # <<>>
    /\ t - Head(h).t >= duration_min * 60
    /\ \A k \in DOMAIN h : /\ h[k].temp >= (target_f - range_f) * 10
                            /\ h[k].temp <= (target_f + range_f) * 10

\* PhaseManager._check_temperature_stability: the reading is appended, the
\* entries older than the duration are dropped, then the verdict
CheckTemperatureStability(p, smoke_id, temp_f, target_f, range_f, duration_min, t) ==
    LET h == DropOlder(DequeAppend(StabilityHistory(p, smoke_id),
                                   [t |-> t, temp |-> temp_f]),
                       t - duration_min * 60)
    IN [p |-> [p EXCEPT !.stability_history =
                   [k \in DOMAIN @ \cup {smoke_id} |->
                       IF k = smoke_id THEN h ELSE @[k]]],
        met |-> StableOver(h, target_f, range_f, duration_min, t)]

\* a check that reports completion whatever the phase's conditions
AlwaysMet(p, smoke_id, ph, temp_f, t) == [p |-> p, met |-> TRUE]

\* PhaseManager.check_phase_conditions for current phase ph; the cook has no
\* meat probe, so the meat threshold is never examined
CheckPhaseConditions(p, smoke_id, ph, temp_f, t) ==
    IF /\ ph.completion_conditions.max_duration_min # None
       /\ t - ph.started_at >= ph.completion_conditions.max_duration_min * 60
    THEN [p |-> p, met |-> TRUE]
    ELSE IF /\ ph.completion_conditions.stability_range_f # None
            /\ ph.completion_conditions.stability_duration_min # None
    THEN CheckTemperatureStability(p, smoke_id, temp_f, ph.target_temp_f,
                                   ph.completion_conditions.stability_range_f,
                                   ph.completion_conditions.stability_duration_min, t)
    ELSE [p |-> p, met |-> FALSE]

\* request_phase_transition after a check with result r, and whether
\* phase_transition_ready is emitted
RequestTransition(d, smoke_id, r) ==
    IF r.met
    THEN [d |-> [d EXCEPT !.smokes[smoke_id].pending_phase_transition = TRUE],
          p |-> r.p, ready |-> TRUE]
    ELSE [d |-> d, p |-> r.p, ready |-> FALSE]

\* a phase check that does not look at is_paused
NeverPaused(d, smoke_id) == FALSE

\* `current_phase.is_paused` as _check_phase_conditions tests it
PhasePaused(d, smoke_id) ==
    d.phases[d.smokes[smoke_id].current_phase_id].is_paused

\* Controller._check_phase_conditions, called by a tick with a good reading
\* when a cook is attached
PhaseCheck(c, d, p, temp_c, t) ==
    IF \/ ~Truthy(c.active_smoke_id)
       \/ c.active_smoke_id \notin DOMAIN d.smokes
       \/ ~Truthy(d.smokes[c.active_smoke_id].current_phase_id)
       \/ d.smokes[c.active_smoke_id].pending_phase_transition
       \/ PhasePaused(d, c.active_smoke_id)
    THEN [d |-> d, p |-> p, ready |-> FALSE]
    ELSE RequestTransition(d, c.active_smoke_id,
             CheckPhaseConditions(p, c.active_smoke_id,
                 d.phases[d.smokes[c.active_smoke_id].current_phase_id],
                 CelsiusToFahrenheit(temp_c), t))

\* the phase lookup and setpoint call shared by _load_active_smoke and
\* set_active_smoke (controller.py:316-323, 338-345)
ApplyPhaseSetpoint(c, d, smoke_id) ==
    IF CurrentPhaseTarget(d, smoke_id) # None
    THEN SetSetpointNotAwaited(c, CurrentPhaseTarget(d, smoke_id))
    ELSE c

\* SmokerController.set_active_smoke
SetActiveSmoke(c, d, smoke_id) ==
    ApplyPhaseSetpoint([c EXCEPT !.active_smoke_id = smoke_id], d, smoke_id)

\* SmokerController._load_active_smoke: the first smoke with is_active
LoadActiveSmoke(c, d) ==
    LET act == {x \in DOMAIN d.smokes : d.smokes[x].is_active}
    IN IF act = {} THEN c
       ELSE SetActiveSmoke(c, d, CHOOSE x \in act : \A y \in act : x <= y)

\* the controller a process start constructs over the store d
\* (SmokerController.__init__ with its _load_active_smoke call)
Boot(d) == LoadActiveSmoke(NewController(d.settings), d)

\* SmokerController.start
Start ==
    /\ obs.requests < MaxRequests
    /\ ~ctl.running
    /\ FreeSlots # {}
    /\ LET i == CHOOSE x \in FreeSlots : \A y \in FreeSlots : x <= y
           target == CurrentPhaseTarget(db, ctl.active_smoke_id)
           c1 == IF Truthy(ctl.active_smoke_id) /\ target # None
                 THEN SetSetpointNotAwaited(ctl, target) ELSE ctl
       IN /\ ctl' = [c1 EXCEPT !.running = TRUE, !.control_task = i]
          /\ tasks' = [tasks EXCEPT ![i] = [IdleTask EXCEPT !.pc = "top"]]
    /\ obs' = Served(obs)
    /\ UNCHANGED <<now, stop_waiting, am, db, pm, ws>>

\* stop() that clears `running` but leaves the relay as it is
StopKeepsRelay(c) == [c EXCEPT !.running = FALSE]

\* SmokerController.stop, running flag and relay (controller.py:408-412)
StopRelay(c) ==
    [c EXCEPT !.running = FALSE, !.driver_state = FALSE, !.relay_state = FALSE]

\* SmokerController.stop up to `await self._control_task` (controller.py:
\* 402-418); a task that already finished does not suspend the caller
StopBegin ==
    /\ obs.requests < MaxRequests
    /\ ctl.running
    /\ LET c1 == StopRelay(ctl)
           i == ctl.control_task
       IN IF i = None
          THEN /\ ctl' = c1
               /\ UNCHANGED <<tasks, stop_waiting, ws>>
          ELSE IF Alive(i)
          THEN /\ ctl' = c1
               /\ tasks' = [tasks EXCEPT ![i].cancel = TRUE]
               /\ stop_waiting' = stop_waiting \cup {i}
          ELSE /\ ctl' = [c1 EXCEPT !.control_task = None]
               /\ UNCHANGED <<tasks, stop_waiting, ws>>
    /\ obs' = Served(Transitions(obs, ctl, ctl', now))
    /\ UNCHANGED <<now, am, db, pm, ws>>

\* SmokerController.stop resumed after the awaited task ended
\* (controller.py:419-425)
StopResume(i) ==
    /\ i \in stop_waiting
    /\ tasks[i].pc = "done"
    /\ stop_waiting' = stop_waiting \ {i}
    /\ tasks' = [tasks EXCEPT ![i] = IdleTask]
    /\ ctl' = [ctl EXCEPT !.control_task = None]
    /\ UNCHANGED <<now, am, db, obs, pm, ws>>

\* CancelledError raised in a task at its suspension point; it is not an
\* Exception, so the loop's handler lets it end the task
CancelDeliver(i) ==
    /\ Alive(i)
    /\ tasks[i].cancel
    /\ tasks' = [tasks EXCEPT ![i] = [IdleTask EXCEPT !.pc = "done"]]
    /\ UNCHANGED <<now, ctl, stop_waiting, am, db, obs, pm, ws>>

\* a task may take its next step at the loop head
AtLoopHead(i) ==
    /\ ~tasks[i].cancel
    /\ \/ tasks[i].pc = "top"
       \/ tasks[i].pc = "sleep" /\ now >= tasks[i].wake

\* end of a loop iteration that began at `start` (controller.py:773-782)
AfterIteration(tk, start, t) ==
    IF LoopInterval - (t - start) > 0
    THEN [tk EXCEPT !.pc = "sleep", !.wake = t + (LoopInterval - (t - start)),
                    !.stage = 0, !.post_start = None]
    ELSE [tk EXCEPT !.pc = "top", !.wake = None, !.stage = 0,
                    !.post_start = None]

\* the loop test failing: `while self.running` is false and the task returns
LoopExit(i) ==
    /\ AtLoopHead(i)
    /\ ~ctl.running
    /\ tasks' = [tasks EXCEPT ![i] = IdleTask]
    /\ UNCHANGED <<now, ctl, stop_waiting, am, db, obs, pm, ws>>

\* the task after check_alerts returned r (stage 0) or suspended in a POST
AfterAlerts(tk, r, start, t) ==
    IF r.stage = 0 THEN AfterIteration(tk, start, t)
    ELSE [tk EXCEPT !.pc = "post", !.stage = r.stage, !.post_start = t]

\* the alert evaluation's writes
AlertsWritten(r) ==
    /\ Len(r.rows) <= MaxAlertRows
    /\ am' = r.m
    /\ db' = [db EXCEPT !.alerts = r.rows]

\* _control_iteration after the relay decision d (controller.py:834-842)
TickTail(i, d, tk, out) ==
    /\ ctl' = d.c
    /\ IF d.fault
       THEN /\ tasks' = [tasks EXCEPT ![i] = AfterIteration(tk, now, now)]
            /\ obs' = ObserveTick(obs, ctl, d.c, now, TickKind(ctl, now))
            /\ UNCHANGED <<am, db, pm, ws>>
       ELSE \E r \in {CheckAlertsFrom(1, [m |-> am, rows |-> db.alerts, post |-> FALSE],
                                      tk.st, now)},
               ph \in {PhaseCheck(d.c, db, pm, ControlReading(ctl).temp_c, now)} :
               /\ Len(r.rows) <= MaxAlertRows
               /\ am' = r.m
               /\ db' = LogReading([ph.d EXCEPT !.alerts = r.rows,
                                                !.settings = d.set], out, now)
               /\ pm' = ph.p
               /\ obs' = [ObservePhase(ObservePost(ObserveTick(obs, ctl, d.c, now,
                                                               TickKind(ctl, now)),
                                                   r, now), ph, now)
                           EXCEPT !.alerts_at = now]
               /\ tasks' = [tasks EXCEPT ![i] = AfterAlerts(tk, r, now, now)]

\* one loop iteration up to its first suspension: _control_iteration with
\* check_alerts run to its first webhook POST or to its end
Tick(i) ==
    /\ AtLoopHead(i)
    /\ ctl.running
    /\ \E d \in {ControlDecision([c |-> ctl, set |-> db.settings], now)} :
          TickTail(i, d, [tasks[i] EXCEPT !.tick_start = now, !.failed = FALSE,
                                          !.st = Status(d.c, d.set)], "committed")
    /\ UNCHANGED <<now, stop_waiting, ws>>

\* a loop iteration whose _log_reading raises inside its try block
TickLogFails(i, out) ==
    /\ AtLoopHead(i)
    /\ ctl.running
    /\ out # "committed"
    /\ \E d \in {ControlDecision([c |-> ctl, set |-> db.settings], now)} :
          /\ ~d.fault
          /\ TickTail(i, d, [tasks[i] EXCEPT !.tick_start = now, !.failed = FALSE,
                                             !.st = Status(d.c, d.set)], out)
    /\ UNCHANGED <<now, stop_waiting, ws>>

\* sub-steps of a tick that may raise (controller.py:784-842)
SubSteps == {"reading", "strategy", "relay", "phase", "persistence", "alerts"}

\* the controller when relay_driver.set_state raises: the strategy's decision
\* is kept, the relay and its time stamps are as before the tick
RelayCommandFailed(c, c2) ==
    [c2 EXCEPT !.relay_state = c.relay_state, !.driver_state = c.driver_state,
               !.last_on_time = c.last_on_time, !.last_off_time = c.last_off_time]

\* an error handler that lets the exception end the loop task
ErrorEndsLoop(tk, t) == IdleTask

\* `except Exception` in _control_loop (controller.py:769-772) and the rest
\* of the iteration: the error is logged and the loop goes on
ErrorContained(tk, t) == AfterIteration(tk, t, t)

\* a loop iteration in which `step` raises an Exception: the sub-steps before
\* it have taken effect, the later ones are skipped
TickFails(i, step) ==
    /\ AtLoopHead(i)
    /\ ctl.running
    /\ IF step \in {"reading", "strategy"}
       THEN UNCHANGED <<ctl, db, pm, ws>>
       ELSE \E d \in {ControlDecision([c |-> ctl, set |-> db.settings], now)} :
               /\ ctl' = IF step = "relay" THEN RelayCommandFailed(ctl, d.c)
                         ELSE d.c
               /\ IF step \in {"relay", "phase"} \/ d.fault
                  THEN /\ db' = IF step = "relay" THEN db
                                ELSE [db EXCEPT !.settings = d.set]
                       /\ pm' = pm
                  ELSE \E ph \in {PhaseCheck(d.c, db, pm,
                                             ControlReading(ctl).temp_c, now)} :
                          /\ db' = IF step = "alerts"
                                   THEN LogReading([ph.d EXCEPT !.settings = d.set],
                                                   "committed", now)
                                   ELSE [ph.d EXCEPT !.settings = d.set]
                          /\ pm' = ph.p
    /\ obs' = [Transitions(obs, ctl, ctl', now) EXCEPT !.last_tick = "error"]
    /\ tasks' = [tasks EXCEPT ![i] =
                    ErrorContained([tasks[i] EXCEPT !.tick_start = now,
                                                    !.failed = TRUE], now)]
    /\ UNCHANGED <<now, stop_waiting, am, ws>>

\* the webhook POST returning (ok: 2xx status; ~ok: error status, timeout or
\* connection failure), then the rest of check_alerts and of the iteration
PostDone(i, ok) ==
    /\ tasks[i].pc = "post"
    /\ ~tasks[i].cancel
    /\ \E r \in {CheckAlertsFrom(
                    tasks[i].stage + 1,
                    [m |-> IF ok THEN [am EXCEPT !.last_webhook_time = tasks[i].post_start]
                           ELSE am,
                     rows |-> db.alerts, post |-> FALSE],
                    Reloaded(tasks[i].st, db.settings), now)} :
          /\ AlertsWritten(r)
          /\ obs' = ObservePost(obs, r, now)
          /\ tasks' = [tasks EXCEPT ![i] = AfterAlerts(tasks[i], r, tasks[i].tick_start, now)]
    /\ UNCHANGED <<now, ctl, stop_waiting, pm, ws>>

----------------------------------------------------------------------------
(* Environment: the monitoring loop, the API requests, the clock           *)

\* what tc_manager.read_all returns for the control thermocouple
Readings ==
    {[temp_c |-> x, fault |-> FALSE] : x \in Temps}
      \cup {[temp_c |-> None, fault |-> TRUE]}

\* one pass of _monitoring_loop (controller.py:733-760)
MonitoringRead(r) ==
    /\ now >= ctl.monitoring_wake
    /\ ctl' = [ctl EXCEPT !.tc_readings = <<r>>,
                          !.monitoring_wake = now + 1,
                          !.current_temp_c =
                              IF r.temp_c # None /\ ~r.fault THEN r.temp_c ELSE @]
    /\ UNCHANGED <<now, tasks, stop_waiting, am, db, obs, pm, ws>>

\* boost durations requested through the API, seconds
BoostDurations == {2}

\* SmokerController.enable_boost
EnableBoost(duration_s) ==
    /\ obs.requests < MaxRequests
    /\ ~ctl.boost_active
    /\ ctl' = [ctl EXCEPT !.boost_active = TRUE, !.boost_until = now + duration_s]
    /\ obs' = Served(obs)
    /\ UNCHANGED <<now, tasks, stop_waiting, am, db, pm, ws>>

\* SmokerController.set_control_mode
SetControlMode(mode) ==
    /\ obs.requests < MaxRequests
    /\ mode # ctl.control_mode
    /\ ctl' = [ctl EXCEPT !.control_mode = mode, !.pid = PIDReset(@),
                          !.window_start_time = None, !.window_on_duration = 0,
                          !.adaptive_pid.enabled = (mode = TimeProportional)]
    /\ obs' = Served(obs)
    /\ UNCHANGED <<now, tasks, stop_waiting, am, db, pm, ws>>

\* SmokerController.start_autotune with the default request
StartAutotune ==
    /\ obs.requests < MaxRequests
    /\ ctl.running
    /\ ~ctl.autotune_active
    /\ ~Truthy(ctl.active_smoke_id)
    /\ ctl.control_mode # Thermostat
    /\ ctl' = [ctl EXCEPT !.autotuner = NewTuner(ctl.setpoint_c, 50, 60, 1,
                                                 "tyreus_luyben", now),
                          !.autotune_active = TRUE,
                          !.autotune_auto_apply = TRUE]
    /\ obs' = Served(obs)
    /\ UNCHANGED <<now, tasks, stop_waiting, am, db, pm, ws>>

\* class TuningRule
TuningRules ==
    {"ziegler_nichols_pid", "ziegler_nichols_pi", "ziegler_nichols_p",
     "tyreus_luyben", "ciancone_marlin", "pessen_integral", "some_overshoot",
     "no_overshoot"}

\* a start_autotune that does not look at the attached cook
NoCookCheck(c) == FALSE

\* `if self.active_smoke_id:` of start_autotune
CookAttached(c) == Truthy(c.active_smoke_id)

\* SmokerController.start_autotune at time t with tuning rule `rule` and the
\* route's other defaults: the controller as the call leaves it
StartAutotuneWith(c, rule, t) ==
    IF \/ ~c.running
       \/ c.autotune_active
       \/ CookAttached(c)
       \/ c.control_mode = Thermostat
    THEN c
    ELSE [c EXCEPT !.autotuner = NewTuner(c.setpoint_c, 50, 60, 1, rule, t),
                   !.autotune_active = TRUE,
                   !.autotune_auto_apply = TRUE]

\* the live and the persisted PID gains
RunGains(c, d) ==
    [live |-> <<c.pid.kp, c.pid.ki, c.pid.kd>>,
     persisted |-> <<d.settings.kp, d.settings.ki, d.settings.kd>>]

\* POST /control/autotune/start in any state of the controller; the history
\* keeps the gains a run started with
RequestAutotune(rule) ==
    /\ obs.requests < MaxRequests
    /\ ctl' = StartAutotuneWith(ctl, rule, now)
    /\ obs' = [ServedAs(obs, "autotune") EXCEPT
                  !.tune_gains = IF ctl'.autotune_active /\ ~ctl.autotune_active
                                 THEN RunGains(ctl, db) ELSE @]
    /\ UNCHANGED <<now, tasks, stop_waiting, am, db, pm, ws>>

\* SmokerController.cancel_autotune requested through the API
CancelAutotuneRequest ==
    /\ obs.requests < MaxRequests
    /\ ctl.autotune_active
    /\ ctl' = CancelAutotune(ctl)
    /\ obs' = ServedAs(obs, "cancel")
    /\ UNCHANGED <<now, tasks, stop_waiting, am, db, pm, ws>>

\* something is due at the current instant: the monitoring pass, a task at
\* the loop head, a
\* cancellation to deliver, a stop() to resume, a POST at its timeout
Urgent ==
    \/ now >= ctl.monitoring_wake
    \/ \E i \in Slots : tasks[i].cancel /\ Alive(i)
    \/ \E i \in Slots : AtLoopHead(i)
    \/ \E i \in stop_waiting : tasks[i].pc = "done"
    \/ \E i \in Slots : tasks[i].pc = "post"
                          /\ now - tasks[i].post_start >= WebhookTimeout

\* the clock advances by one second
Clock(limit) ==
    /\ now < limit
    /\ ~Urgent
    /\ now' = now + 1
    /\ UNCHANGED <<ctl, tasks, stop_waiting, am, db, obs, pm, ws>>

Advance == Clock(MaxTime)
AdvanceModes == Clock(MaxModesTime)
AdvanceWindow == Clock(MaxWindowTime)
AdvanceAlert == Clock(MaxAlertTime)

\* the controller's life cycle in thermostat mode with a webhook configured
Next ==
    \/ Start
    \/ StopBegin
    \/ \E i \in Slots : StopResume(i)
    \/ \E i \in Slots : CancelDeliver(i)
    \/ \E i \in Slots : LoopExit(i)
    \/ \E i \in Slots : Tick(i)
    \/ \E i \in Slots, ok \in BOOLEAN : PostDone(i, ok)
    \/ \E r \in Readings : MonitoringRead(r)
    \/ Advance

Spec == Init /\ [][Next]_vars

\* a started controller under every strategy, no webhook configured
InitModes ==
    /\ now = 1
    /\ db = [settings |-> [DefaultSettings EXCEPT !.webhook_url = FALSE],
             alerts |-> <<>>, smokes |-> <<>>, phases |-> <<>>,
             readings |-> NoReadings]
    /\ ctl = NewController(DefaultSettings)
    /\ tasks = [i \in Slots |-> IdleTask]
    /\ stop_waiting = {}
    /\ am = NewAlertManager
    /\ obs = NoHistory
    /\ pm = NewPhaseManager
    /\ ws = NewConnectionManager

NextModes ==
    \/ Start
    \/ \E i \in Slots : Tick(i)
    \/ \E r \in Readings : MonitoringRead(r)
    \/ \E d \in BoostDurations : EnableBoost(d)
    \/ \E mode \in {Thermostat, TimeProportional} : SetControlMode(mode)
    \/ StartAutotune
    \/ CancelAutotuneRequest
    \/ AdvanceModes

SpecModes == InitModes /\ [][NextModes]_vars

\* a controller configured for time-proportional control, no webhook
WindowSettings ==
    [DefaultSettings EXCEPT !.control_mode = TimeProportional,
                            !.webhook_url = FALSE]

InitWindow ==
    /\ now = 1
    /\ db = [settings |-> WindowSettings, alerts |-> <<>>, smokes |-> <<>>,
             phases |-> <<>>, readings |-> NoReadings]
    /\ ctl = NewController(WindowSettings)
    /\ tasks = [i \in Slots |-> IdleTask]
    /\ stop_waiting = {}
    /\ am = NewAlertManager
    /\ obs = NoHistory
    /\ pm = NewPhaseManager
    /\ ws = NewConnectionManager

NextWindow ==
    \/ Start
    \/ \E i \in Slots : Tick(i)
    \/ \E r \in Readings : MonitoringRead(r)
    \/ AdvanceWindow

SpecWindow == InitWindow /\ [][NextWindow]_vars

----------------------------------------------------------------------------
(* Properties                                                              *)

\* C1: a control tick whose control-channel reading is missing, None or
\* faulted ends with the relay commanded OFF (driver state and relay_state
\* false) under every strategy, and leaves the PID integrator, previous
\* error, last time stamp and last output as they were.
FaultTickSafe ==
    [][\A i \in Slots :
         (Tick(i) /\ ControlFault(ctl)) =>
            /\ ~ctl'.relay_state
            /\ ~ctl'.driver_state
            /\ ctl'.pid.integral = ctl.pid.integral
            /\ ctl'.pid.last_error = ctl.pid.last_error
            /\ ctl'.pid.last_time = ctl.pid.last_time
            /\ ctl'.pid.last_output = ctl.pid.last_output]_vars

\* a fault tick found the relay ON and a PID law that had already run
FaultTickSeen ==
    /\ obs.last_tick = "fault"
    /\ obs.relay_before
    /\ obs.off_at = now
    /\ ~ctl.relay_state
    /\ ctl.pid.last_time # None

\* C2: whenever running is false the relay is OFF (driver state and
\* relay_state): stop() turns it off and no tick, not even one suspended
\* mid-body when stop() was called, commands it before the next start().
RelayOffWhenStopped ==
    ~ctl.running => (~ctl.relay_state /\ ~ctl.driver_state)

\* stop() turned the relay off while a tick was suspended in its webhook POST
StoppedMidTick ==
    /\ ~ctl.running
    /\ obs.off_at = now
    /\ \E i \in stop_waiting : tasks[i].pc = "post" /\ tasks[i].cancel

\* C3: in thermostat mode with boost and auto-tune inactive, an OFF->ON
\* transition comes at least min_off_s after the previous ON->OFF transition
\* (however that one was commanded), and an ON->OFF transition at least
\* min_on_s after the previous OFF->ON transition.
MinDwellRespected ==
    [][(ctl.control_mode = Thermostat /\ ~ctl.boost_active /\ ~ctl.autotune_active) =>
         /\ (~ctl.relay_state /\ ctl'.relay_state /\ obs.off_at # None)
               => now - obs.off_at >= ctl.min_off_s
         /\ (ctl.relay_state /\ ~ctl'.relay_state /\ obs.on_at # None)
               => now - obs.on_at >= ctl.min_on_s]_vars

\* control-loop tasks that are alive and not cancelled
LiveLoops == {i \in Slots : Alive(i) /\ ~tasks[i].cancel}

\* C4: at most one control-loop task is alive at any time, so that no two
\* tick bodies overlap, under every interleaving of start() and stop().
OneLoopAlive == Cardinality(LiveLoops) <= 1

\* C5: in time-proportional mode every window of length time_window_s has a
\* number of relay-ON ticks equal to (pid_output/100) * time_window_s, the
\* duty computed when the window opened, to within one tick.
WindowDutyWithinOneTick ==
    obs.closed.start # None =>
        /\ obs.closed.on_ticks * 100000 <= obs.closed.on_duration + 100000
        /\ obs.closed.on_duration <= obs.closed.on_ticks * 100000 + 100000

\* a window all of whose ticks ran the time-proportional strategy, one per
\* second
CleanWindow(w) ==
    /\ w.start # None
    /\ w.length = ctl.time_window_s
    /\ w.ticks = ctl.time_window_s
    /\ w.tp_ticks = w.ticks

\* C5 (amended): the same, for the windows in which every tick of the
\* 1 s schedule ran the time-proportional strategy (no sensor-fault tick).
CleanWindowDutyWithinOneTick ==
    CleanWindow(obs.closed) =>
        /\ obs.closed.on_ticks * 100000 <= obs.closed.on_duration + 100000
        /\ obs.closed.on_duration <= obs.closed.on_ticks * 100000 + 100000

\* a clean window with a duty above two ticks has closed
CleanWindowSeen ==
    /\ CleanWindow(obs.closed)
    /\ obs.closed.on_duration > 200000
    /\ obs.closed.on_ticks = 3

\* C7: while running is true the loop never ends because of an error: a
\* tick in which a sub-step raises leaves the task alive and due again one
\* interval later, and a task ends only when stop() cancelled it or when it
\* found running false.
LoopSurvivesErrors ==
    [][\A i \in Slots :
         /\ (/\ AtLoopHead(i) /\ ctl.running
             /\ tasks'[i] # tasks[i] /\ ~tasks'[i].cancel
             /\ tasks'[i].failed) =>
               /\ tasks'[i].pc = "sleep"
               /\ tasks'[i].wake = now + LoopInterval
         /\ (Alive(i) /\ tasks'[i].pc \in {"none", "done"}) =>
               (tasks[i].cancel \/ ~ctl.running)]_vars

\* a tick failed after its relay command had turned the relay ON, and the
\* task waits for its next tick
FailedTickSeen ==
    /\ obs.last_tick = "error"
    /\ obs.on_at = now
    /\ ctl.running
    /\ \E i \in Slots : /\ tasks[i].failed
                         /\ tasks[i].pc = "sleep"
                         /\ tasks[i].tick_start = now

\* C8: a webhook POST never delays the control loop: while a POST is
\* outstanding the tick that follows the one that issued it is not overdue.
PostNeverDelaysLoop ==
    \A i \in Slots :
        tasks[i].pc = "post" => now - tasks[i].tick_start < LoopInterval

----------------------------------------------------------------------------
(* Manual alert operations (alerts.py:306-361) and further specifications  *)

\* AlertManager.acknowledge_alert
AcknowledgeAlert(id) ==
    /\ obs.requests < MaxRequests
    /\ id \in DOMAIN db.alerts
    /\ db.alerts[id].active
    /\ db' = [db EXCEPT !.alerts[id].acknowledged = TRUE]
    /\ obs' = Served(obs)
    /\ UNCHANGED <<now, ctl, tasks, stop_waiting, am, pm, ws>>

\* the active_alerts map without the entries that hold row id
WithoutRow(m, id) == [k \in {x \in DOMAIN m : m[x] # id} |-> m[k]]

\* AlertManager.clear_alert (manual): the debounce timer is left in place
ClearAlert(id) ==
    /\ obs.requests < MaxRequests
    /\ id \in DOMAIN db.alerts
    /\ db.alerts[id].active
    /\ db' = [db EXCEPT !.alerts[id].active = FALSE, !.alerts[id].cleared_ts = now]
    /\ am' = [am EXCEPT !.active_alerts = WithoutRow(@, id)]
    /\ obs' = Served(obs)
    /\ UNCHANGED <<now, ctl, tasks, stop_waiting, pm, ws>>

\* alert runs: no webhook is configured
InitAlert ==
    /\ now = 1
    /\ db = [settings |-> [DefaultSettings EXCEPT !.webhook_url = FALSE],
             alerts |-> <<>>, smokes |-> <<>>, phases |-> <<>>,
             readings |-> NoReadings]
    /\ ctl = NewController(DefaultSettings)
    /\ tasks = [i \in Slots |-> IdleTask]
    /\ stop_waiting = {}
    /\ am = NewAlertManager
    /\ obs = NoHistory
    /\ pm = NewPhaseManager
    /\ ws = NewConnectionManager

NextAlert ==
    \/ Start
    \/ \E i \in Slots : Tick(i)
    \/ \E r \in Readings : MonitoringRead(r)
    \/ \E id \in 1..MaxAlertRows : AcknowledgeAlert(id)
    \/ \E id \in 1..MaxAlertRows : ClearAlert(id)
    \/ AdvanceAlert

SpecAlert == InitAlert /\ [][NextAlert]_vars

\* the life cycle with ticks in which a sub-step raises; no webhook
NextErr ==
    \/ Start
    \/ StopBegin
    \/ \E i \in Slots : StopResume(i)
    \/ \E i \in Slots : CancelDeliver(i)
    \/ \E i \in Slots : LoopExit(i)
    \/ \E i \in Slots : Tick(i)
    \/ \E i \in Slots, step \in SubSteps : TickFails(i, step)
    \/ \E r \in Readings : MonitoringRead(r)
    \/ Advance

SpecErr == InitAlert /\ [][NextErr]_vars

\* the process exits and is started again over the same store: the services
\* are constructed afresh (core/container.py, AlertManager.__init__,
\* SmokerController.__init__), persistence keeps its rows
Restart ==
    /\ obs.requests < MaxRequests
    /\ ctl' = Boot(db)
    /\ am' = NewAlertManager
    /\ tasks' = [i \in Slots |-> IdleTask]
    /\ stop_waiting' = {}
    /\ obs' = [NoHistory EXCEPT !.requests = obs.requests + 1]
    /\ UNCHANGED <<now, db, pm, ws>>

NextRestart ==
    \/ NextAlert
    \/ Restart

SpecRestart == InitAlert /\ [][NextRestart]_vars

\* Alert rows of a type that are active
ActiveRows(type) ==
    {id \in DOMAIN db.alerts : db.alerts[id].alert_type = type /\ db.alerts[id].active}

\* C9: at every instant each alert_type has at most one Alert row with
\* active = true in persistence.
OneActiveRowPerType == \A type \in AlertKeys : Cardinality(ActiveRows(type)) <= 1

\* C10: two successive creations of an active row of the same type are at
\* least 5 s apart, whether the clear in between was automatic or manual.
CreationsDebounced ==
    \A i, j \in DOMAIN db.alerts :
        (i < j /\ db.alerts[i].alert_type = db.alerts[j].alert_type)
            => db.alerts[j].ts - db.alerts[i].ts >= DebounceDuration

----------------------------------------------------------------------------
(* Cooks and phases (api/routers/smokes.py, core/phase_manager.py)         *)

CookTargets == {230, 248}
MaxSmokes == 2

\* a store in which an earlier run left a cook with two phases, the first
\* one current; the cook may or may not have been ended
PersistedCook(active) ==
    [settings |-> DefaultSettings, alerts |-> <<>>, readings |-> NoReadings,
     smokes |-> <<[is_active |-> active, ended |-> ~active,
                   current_phase_id |-> 1,
                   pending_phase_transition |-> FALSE]>>,
     phases |-> <<[smoke_id |-> 1, phase_order |-> 0, target_temp_f |-> 230,
                   is_active |-> TRUE, is_paused |-> FALSE, started_at |-> 0,
                   completion_conditions |-> NoConditions],
                  [smoke_id |-> 1, phase_order |-> 1, target_temp_f |-> 248,
                   is_active |-> FALSE, is_paused |-> FALSE, started_at |-> 0,
                   completion_conditions |-> NoConditions]>>]

\* the phase of smoke_id with the given phase_order, None without one
PhaseWithOrder(d, smoke_id, order) ==
    LET ps == {p \in DOMAIN d.phases : /\ d.phases[p].smoke_id = smoke_id
                                        /\ d.phases[p].phase_order = order}
    IN IF ps = {} THEN None ELSE CHOOSE p \in ps : \A q \in ps : p <= q

\* approve_phase_transition that leaves the phase it finishes active
KeepCurrentPhase(phases, cur) == phases

\* `current_phase.is_active = False` of approve_phase_transition
EndCurrentPhase(phases, cur) == [phases EXCEPT ![cur].is_active = FALSE]

\* an approval that does not look at the pending flag
AlwaysPending(d, smoke_id) == TRUE

\* `smoke.pending_phase_transition` as approve_phase_transition tests it
TransitionPending(d, smoke_id) == d.smokes[smoke_id].pending_phase_transition

\* PhaseManager.approve_phase_transition at time t: refused without a
\* pending flag; otherwise the current phase ends and the next one (if any)
\* becomes current
ApprovePhaseTransition(d, smoke_id, t) ==
    LET cur == d.smokes[smoke_id].current_phase_id
        ended == IF Truthy(cur) THEN EndCurrentPhase(d.phases, cur) ELSE d.phases
        nxt == IF Truthy(cur)
               THEN PhaseWithOrder(d, smoke_id, d.phases[cur].phase_order + 1)
               ELSE PhaseWithOrder(d, smoke_id, 0)
    IN IF ~TransitionPending(d, smoke_id)
       THEN [d |-> d, ok |-> FALSE, started |-> FALSE]
       ELSE IF nxt = None
       THEN [d |-> [d EXCEPT !.phases = ended,
                             !.smokes[smoke_id].pending_phase_transition = FALSE,
                             !.smokes[smoke_id].current_phase_id = None],
             ok |-> TRUE, started |-> FALSE]
       ELSE [d |-> [d EXCEPT !.phases = [ended EXCEPT ![nxt].is_active = TRUE,
                                                      ![nxt].started_at = t],
                             !.smokes[smoke_id].pending_phase_transition = FALSE,
                             !.smokes[smoke_id].current_phase_id = nxt],
             ok |-> TRUE, started |-> TRUE]

\* `self._stability_history[smoke_id].clear()` when the smoke has a history
ClearStability(p, smoke_id) ==
    IF smoke_id \in DOMAIN p.stability_history
    THEN [p EXCEPT !.stability_history[smoke_id] = <<>>] ELSE p

\* the routes' `if current_phase: await controller.set_setpoint(...)`
AwaitPhaseSetpoint(c, d, smoke_id) ==
    IF CurrentPhaseTarget(d, smoke_id) # None
    THEN SetSetpoint(c, CurrentPhaseTarget(d, smoke_id))
    ELSE c

\* the approve and skip routes after approve_phase_transition returned r
PhaseApproved(smoke_id, r) ==
    /\ db' = r.d
    /\ pm' = IF r.started THEN ClearStability(pm, smoke_id) ELSE pm
    /\ ctl' = IF r.ok THEN AwaitPhaseSetpoint(ctl, r.d, smoke_id) ELSE ctl

\* POST /smokes/{id}/activate
ActivateSmoke(smoke_id) ==
    /\ obs.requests < MaxRequests
    /\ smoke_id \in DOMAIN db.smokes
    /\ db' = [db EXCEPT !.smokes = [x \in DOMAIN @ |->
                                       [@[x] EXCEPT !.is_active = (x = smoke_id)]]]
    /\ ctl' = SetActiveSmoke(ctl, db', smoke_id)
    /\ obs' = Served(obs)
    /\ UNCHANGED <<now, tasks, stop_waiting, am, pm, ws>>

\* POST /smokes/{id}/end
EndSmoke(smoke_id) ==
    /\ obs.requests < MaxRequests
    /\ smoke_id \in DOMAIN db.smokes
    /\ ~db.smokes[smoke_id].ended
    /\ db' = [db EXCEPT !.smokes[smoke_id].is_active = FALSE,
                        !.smokes[smoke_id].ended = TRUE]
    /\ ctl' = IF ctl.active_smoke_id = smoke_id
              THEN [ctl EXCEPT !.active_smoke_id = None] ELSE ctl
    /\ obs' = Served(obs)
    /\ UNCHANGED <<now, tasks, stop_waiting, am, pm, ws>>

\* PhaseManager.request_phase_transition, called by the control tick when the
\* current phase's completion conditions are met
RequestPhaseTransition(smoke_id) ==
    /\ obs.requests < MaxRequests
    /\ ctl.running
    /\ ctl.active_smoke_id = smoke_id
    /\ smoke_id \in DOMAIN db.smokes
    /\ ~db.smokes[smoke_id].pending_phase_transition
    /\ db' = [db EXCEPT !.smokes[smoke_id].pending_phase_transition = TRUE]
    /\ obs' = Served(obs)
    /\ UNCHANGED <<now, ctl, tasks, stop_waiting, am, pm, ws>>

\* POST /smokes/{id}/approve-phase-transition
ApproveTransition(smoke_id) ==
    /\ obs.requests < MaxRequests
    /\ smoke_id \in DOMAIN db.smokes
    /\ PhaseApproved(smoke_id, ApprovePhaseTransition(db, smoke_id, now))
    /\ obs' = ServedAs(obs, "approve")
    /\ UNCHANGED <<now, tasks, stop_waiting, am, ws>>

\* POST /smokes/{id}/skip-phase: PhaseManager.skip_phase sets the pending
\* flag and approves at once
SkipPhase(smoke_id) ==
    /\ obs.requests < MaxRequests
    /\ smoke_id \in DOMAIN db.smokes
    /\ PhaseApproved(smoke_id,
           ApprovePhaseTransition(
               [db EXCEPT !.smokes[smoke_id].pending_phase_transition = TRUE],
               smoke_id, now))
    /\ obs' = ServedAs(obs, "skip")
    /\ UNCHANGED <<now, tasks, stop_waiting, am, ws>>

\* PUT /smokes/{id}/phases/{phase_id} with a target temperature
UpdatePhase(smoke_id, phase_id, target_temp_f) ==
    /\ obs.requests < MaxRequests
    /\ smoke_id \in DOMAIN db.smokes
    /\ phase_id \in DOMAIN db.phases
    /\ db.phases[phase_id].smoke_id = smoke_id
    /\ db' = [db EXCEPT !.phases[phase_id].target_temp_f = target_temp_f]
    /\ ctl' = IF db.phases[phase_id].is_active
              THEN SetSetpoint(ctl, target_temp_f) ELSE ctl
    /\ obs' = Served(obs)
    /\ UNCHANGED <<now, tasks, stop_waiting, am, pm, ws>>

\* POST /control/setpoint (api/routers/control.py): applied and persisted
\* whether or not a cook is active
ManualSetpoint(setpoint_f) ==
    /\ obs.requests < MaxRequests
    /\ ctl' = SetSetpoint(ctl, setpoint_f)
    /\ db' = [db EXCEPT !.settings.setpoint_f = setpoint_f]
    /\ obs' = Served(obs)
    /\ UNCHANGED <<now, tasks, stop_waiting, am, pm, ws>>

\* POST /smokes/{id}/pause-phase (PhaseManager.pause_phase)
PausePhase(smoke_id) ==
    /\ obs.requests < MaxRequests
    /\ smoke_id \in DOMAIN db.smokes
    /\ db' = IF /\ Truthy(db.smokes[smoke_id].current_phase_id)
                /\ ~db.phases[db.smokes[smoke_id].current_phase_id].is_paused
             THEN [db EXCEPT !.phases[db.smokes[smoke_id].current_phase_id].is_paused = TRUE]
             ELSE db
    /\ obs' = ServedAs(obs, "pause")
    /\ UNCHANGED <<now, ctl, tasks, stop_waiting, am, pm, ws>>

\* POST /smokes/{id}/resume-phase (PhaseManager.resume_phase)
ResumePhase(smoke_id) ==
    /\ obs.requests < MaxRequests
    /\ smoke_id \in DOMAIN db.smokes
    /\ IF /\ Truthy(db.smokes[smoke_id].current_phase_id)
          /\ db.phases[db.smokes[smoke_id].current_phase_id].is_paused
       THEN /\ db' = [db EXCEPT !.phases[db.smokes[smoke_id].current_phase_id].is_paused = FALSE]
            /\ pm' = ClearStability(pm, smoke_id)
       ELSE UNCHANGED <<db, pm, ws>>
    /\ obs' = ServedAs(obs, "resume")
    /\ UNCHANGED <<now, ctl, tasks, stop_waiting, am, ws>>

\* a recipe of two phases after create_smoke applied the request's
\* customisations: preheat takes the preheat temperature and timings, smoke
\* the cook temperature and duration (its meat threshold needs a probe)
RecipePhases(req, smoke_id, t) ==
    <<[smoke_id |-> smoke_id, phase_order |-> 0,
       target_temp_f |-> req.preheat_temp_f,
       is_active |-> FALSE, is_paused |-> FALSE, started_at |-> t,
       completion_conditions |->
           [max_duration_min |-> req.preheat_duration_min,
            stability_range_f |-> req.stability_range_f,
            stability_duration_min |-> req.preheat_stability_min]],
      [smoke_id |-> smoke_id, phase_order |-> 1,
       target_temp_f |-> req.cook_temp_f,
       is_active |-> FALSE, is_paused |-> FALSE, started_at |-> t,
       completion_conditions |->
           [NoConditions EXCEPT !.max_duration_min = req.cook_duration_min]]>>

\* the store after create_smoke: every active cook is deactivated and ended,
\* the new cook and its phases are added, the first phase is made current
SmokeCreated(d, req, t) ==
    LET id == Len(d.smokes) + 1
        first == Len(d.phases) + 1
    IN [d EXCEPT
          !.smokes = Append([x \in DOMAIN @ |->
                                IF @[x].is_active
                                THEN [@[x] EXCEPT !.is_active = FALSE, !.ended = TRUE]
                                ELSE @[x]],
                            [is_active |-> TRUE, ended |-> FALSE,
                             current_phase_id |-> first,
                             pending_phase_transition |-> FALSE]),
          !.phases = [(@ \o RecipePhases(req, id, t)) EXCEPT ![first].is_active = TRUE]]

\* requests to create a cook
SmokeCreates ==
    {[preheat_temp_f |-> 248, cook_temp_f |-> 230, preheat_duration_min |-> 1,
      preheat_stability_min |-> 2, stability_range_f |-> 5,
      cook_duration_min |-> 1]}

\* POST /smokes
CreateSmoke(req) ==
    /\ obs.requests < MaxRequests
    /\ Len(db.smokes) < MaxSmokes
    /\ db' = SmokeCreated(db, req, now)
    /\ ctl' = SetActiveSmoke(SetSetpoint(ctl, req.preheat_temp_f), db',
                             Len(db.smokes) + 1)
    /\ obs' = ServedAs(obs, "create")
    /\ UNCHANGED <<now, tasks, stop_waiting, am, pm, ws>>

\* the process starts over a store that holds a cook
InitCook ==
    /\ now = 1
    /\ \E active \in BOOLEAN : db = PersistedCook(active)
    /\ ctl = Boot(db)
    /\ tasks = [i \in Slots |-> IdleTask]
    /\ stop_waiting = {}
    /\ am = NewAlertManager
    /\ obs = NoHistory
    /\ pm = NewPhaseManager
    /\ ws = NewConnectionManager

NextCook ==
    \/ Start
    \/ \E req \in SmokeCreates : CreateSmoke(req)
    \/ \E id \in DOMAIN db.smokes : ActivateSmoke(id)
    \/ \E id \in DOMAIN db.smokes : EndSmoke(id)
    \/ \E id \in DOMAIN db.smokes : RequestPhaseTransition(id)
    \/ \E id \in DOMAIN db.smokes : ApproveTransition(id)
    \/ \E id \in DOMAIN db.smokes : SkipPhase(id)
    \/ \E id \in DOMAIN db.smokes : PausePhase(id)
    \/ \E id \in DOMAIN db.smokes : ResumePhase(id)
    \/ \E id \in DOMAIN db.smokes, p \in DOMAIN db.phases, f \in CookTargets :
          UpdatePhase(id, p, f)
    \/ \E f \in CookTargets : ManualSetpoint(f)

SpecCook == InitCook /\ [][NextCook]_vars

\* C6: whenever a cook is active and has a current phase, the controller's
\* live setpoint is that phase's target_temp_f.
CookSetpointAuthoritative ==
    \A id \in DOMAIN db.smokes :
        (/\ ctl.active_smoke_id = id
         /\ db.smokes[id].is_active
         /\ CurrentPhaseTarget(db, id) # None)
            => ctl.setpoint_f = CurrentPhaseTarget(db, id)

\* the phases of a cook that have is_active set
ActivePhases(smoke_id) ==
    {p \in DOMAIN db.phases : db.phases[p].smoke_id = smoke_id /\ db.phases[p].is_active}

\* C13: over creation, approve, skip, pause, resume and phase edits, no cook
\* ever has more than one phase with is_active = true.
OneActivePhasePerSmoke ==
    \A id \in DOMAIN db.smokes : Cardinality(ActivePhases(id)) <= 1

\* an approve or skip has just moved a cook from its first phase to its second
SecondPhaseEntered ==
    /\ obs.request \in {"approve", "skip"}
    /\ \E id \in DOMAIN db.smokes :
          /\ Truthy(db.smokes[id].current_phase_id)
          /\ db.phases[db.smokes[id].current_phase_id].phase_order = 1
          /\ ActivePhases(id) = {db.smokes[id].current_phase_id}

----------------------------------------------------------------------------
(* Webhook runs: one start, a webhook URL configured                       *)

NextWebhook ==
    \/ Start
    \/ \E i \in Slots : Tick(i)
    \/ \E i \in Slots, ok \in BOOLEAN : PostDone(i, ok)
    \/ \E r \in Readings : MonitoringRead(r)
    \/ AdvanceAlert

SpecWebhook == Init /\ [][NextWebhook]_vars

\* C11: any two webhook POST attempts are at least 60 s apart, whatever the
\* outcome of the earlier one.
PostsRateLimited ==
    obs.prev_post_at # None => obs.post_at - obs.prev_post_at >= WebhookRateLimit

\* C12: once a control tick of a running controller has observed a missing
\* control reading, a sensor_fault alert is active (unless its debounce
\* timer held the creation back).
SensorFaultRaised ==
    (obs.last_tick = "fault" /\ "sensor_fault" \notin DOMAIN am.debounce_timers)
        => "sensor_fault" \in DOMAIN am.active_alerts

----------------------------------------------------------------------------
(* Phase progression: ticks check the current phase of the attached cook   *)

MaxPhaseTime == 62

\* the first phase of the persisted cook began 59 s before the process
\* starts; it lasts at most one minute or until two stable minutes
InitPhase ==
    /\ now = 60
    /\ db = [PersistedCook(TRUE) EXCEPT
                !.settings.webhook_url = FALSE,
                !.phases[1].started_at = 1,
                !.phases[1].completion_conditions =
                    [max_duration_min |-> 1, stability_range_f |-> 5,
                     stability_duration_min |-> 2],
                !.phases[2].completion_conditions.max_duration_min = 1]
    /\ ctl = Boot(db)
    /\ tasks = [i \in Slots |-> IdleTask]
    /\ stop_waiting = {}
    /\ am = NewAlertManager
    /\ obs = NoHistory
    /\ pm = NewPhaseManager
    /\ ws = NewConnectionManager

AdvancePhase == Clock(MaxPhaseTime)

\* the control thermocouple reads 104 C or faults
PhaseReadings == {r \in Readings : r.temp_c # 96}

NextPhase ==
    \/ Start
    \/ \E i \in Slots : Tick(i)
    \/ \E r \in PhaseReadings : MonitoringRead(r)
    \/ AdvancePhase
    \/ \E id \in DOMAIN db.smokes : ApproveTransition(id)
    \/ \E id \in DOMAIN db.smokes : SkipPhase(id)
    \/ \E id \in DOMAIN db.smokes : PausePhase(id)
    \/ \E id \in DOMAIN db.smokes : ResumePhase(id)

SpecPhase == InitPhase /\ [][NextPhase]_vars

\* the current phase and the is_active flags of a cook's phases in store d
PhasePosition(d, smoke_id) ==
    <<d.smokes[smoke_id].current_phase_id,
      {p \in DOMAIN d.phases : d.phases[p].smoke_id = smoke_id /\ d.phases[p].is_active}>>

\* C14: the active phase of a cook changes only in a step that serves an
\* approve or a skip request (never in a tick), and an approve served while
\* no transition is pending changes nothing in the store, the phase manager
\* or the controller.
PhaseChangesOnlyOnRequest ==
    [][/\ \A id \in DOMAIN db.smokes :
            PhasePosition(db', id) # PhasePosition(db, id)
                => /\ obs'.requests = obs.requests + 1
                   /\ obs'.request \in {"approve", "skip"}
       /\ (/\ obs'.requests = obs.requests + 1
           /\ obs'.request = "approve"
           /\ \A id \in DOMAIN db.smokes : ~db.smokes[id].pending_phase_transition)
              => UNCHANGED <<db, pm, ctl>>]_vars

\* an approve was just refused: it is the last request served, the loop has
\* ticked, and the cook is still in its first phase, which has never been
\* left
RefusedApproveSeen ==
    /\ obs.request = "approve"
    /\ ~db.smokes[1].pending_phase_transition
    /\ db.smokes[1].current_phase_id = 1
    /\ db.phases[1].is_active /\ db.phases[1].started_at = 1
    /\ ~db.phases[2].is_active /\ db.phases[2].started_at = 0
    /\ \E i \in Slots : tasks[i].tick_start # None

\* a completion condition of the cook's current phase holds at `now`: its
\* maximum duration has passed, or the stability history p covers the
\* stability duration with every temperature in range
ConditionSatisfied(d, p, smoke_id) ==
    LET ph == d.phases[d.smokes[smoke_id].current_phase_id]
        cc == ph.completion_conditions
    IN \/ /\ cc.max_duration_min # None
          /\ now - ph.started_at >= cc.max_duration_min * 60
       \/ /\ cc.stability_range_f # None
          /\ cc.stability_duration_min # None
          /\ StableOver(StabilityHistory(p, smoke_id), ph.target_temp_f,
                        cc.stability_range_f, cc.stability_duration_min, now)

----------------------------------------------------------------------------
(* A stable preheat: the reading stays at the phase target for two minutes *)

MaxStabilityTime == 122

\* the control thermocouple reads 130 C = 266 F at every pass
StableReadings == {[temp_c |-> 130, fault |-> FALSE]}

\* the persisted cook's first phase targets 266 F and completes after two
\* minutes within 5 F of it; alarms are out of the way
InitStability ==
    /\ now = 1
    /\ db = [PersistedCook(TRUE) EXCEPT
                !.settings.webhook_url = FALSE,
                !.settings.setpoint_f = 266,
                !.settings.hi_alarm_c = 150,
                !.phases[1].target_temp_f = 266,
                !.phases[1].started_at = 1,
                !.phases[1].completion_conditions =
                    [NoConditions EXCEPT !.stability_range_f = 5,
                                         !.stability_duration_min = 2]]
    /\ ctl = Boot(db)
    /\ tasks = [i \in Slots |-> IdleTask]
    /\ stop_waiting = {}
    /\ am = NewAlertManager
    /\ obs = NoHistory
    /\ pm = NewPhaseManager
    /\ ws = NewConnectionManager

AdvanceStability == Clock(MaxStabilityTime)

NextStability ==
    \/ Start
    \/ \E i \in Slots : Tick(i)
    \/ \E r \in StableReadings : MonitoringRead(r)
    \/ AdvanceStability

SpecStability == InitStability /\ [][NextStability]_vars

\* C16: once a tick has completed at least stability_duration_min minutes
\* after the first of an unbroken run of ticks whose reading was within the
\* stability range of the target, pending_phase_transition is true.
StableGivesPending ==
    \A i \in Slots :
        (/\ tasks[i].pc = "sleep"
         /\ obs.good_since # None
         /\ tasks[i].tick_start - obs.good_since
               >= db.phases[1].completion_conditions.stability_duration_min * 60)
            => db.smokes[1].pending_phase_transition

----------------------------------------------------------------------------
(* Auto-tune runs: time-proportional control, an active cook in the store  *)

MaxTuneTime == 2

\* the control thermocouple reads above or below the 100 C setpoint
TuneReadings == {r \in Readings : ~r.fault}

InitTune ==
    /\ now = 1
    /\ db = [PersistedCook(TRUE) EXCEPT !.settings = WindowSettings]
    /\ ctl = Boot(db)
    /\ tasks = [i \in Slots |-> IdleTask]
    /\ stop_waiting = {}
    /\ am = NewAlertManager
    /\ obs = NoHistory
    /\ pm = NewPhaseManager
    /\ ws = NewConnectionManager

\* the clock runs while a tuning run is in progress
AdvanceTune == ctl.autotune_active /\ Clock(MaxTuneTime)

NextTune ==
    \/ Start
    \/ \E i \in Slots : Tick(i)
    \/ \E r \in TuneReadings : MonitoringRead(r)
    \/ \E mode \in {Thermostat, TimeProportional} : SetControlMode(mode)
    \/ \E id \in DOMAIN db.smokes : ActivateSmoke(id)
    \/ \E id \in DOMAIN db.smokes : EndSmoke(id)
    \/ \E rule \in TuningRules : RequestAutotune(rule)
    \/ CancelAutotuneRequest
    \/ AdvanceTune

SpecTune == InitTune /\ [][NextTune]_vars

\* what start_autotune requires: running, time-proportional, no cook
\* (attached to the controller or active in the store), no run in progress
AutotuneAllowed ==
    /\ ctl.running
    /\ ctl.control_mode = TimeProportional
    /\ ~Truthy(ctl.active_smoke_id)
    /\ \A id \in DOMAIN db.smokes : ~db.smokes[id].is_active
    /\ ~ctl.autotune_active

\* C18: a start_autotune request starts a run only when the controller is
\* running in time-proportional mode with no cook active and no run in
\* progress; served in any other state it leaves autotune_active, the
\* tuner, the relay and the PID as they were.
AutotuneStartGuarded ==
    [][(obs'.requests = obs.requests + 1 /\ obs'.request = "autotune")
          => /\ (ctl'.autotuner # ctl.autotuner \/ ctl'.autotune_active # ctl.autotune_active)
                   => AutotuneAllowed
             /\ ~AutotuneAllowed
                   => /\ ctl'.autotune_active = ctl.autotune_active
                      /\ ctl'.autotuner = ctl.autotuner
                      /\ ctl'.relay_state = ctl.relay_state
                      /\ ctl'.driver_state = ctl.driver_state
                      /\ ctl'.output_bool = ctl.output_bool
                      /\ ctl'.pid = ctl.pid]_vars

\* a start request was just refused because a cook is attached: the
\* controller runs in time-proportional mode and no run exists
RefusedAutotuneSeen ==
    /\ obs.request = "autotune"
    /\ ctl.running
    /\ ctl.control_mode = TimeProportional
    /\ Truthy(ctl.active_smoke_id)
    /\ ~ctl.autotune_active
    /\ ~HasTuner(ctl)

----------------------------------------------------------------------------
(* Complete auto-tune runs under each tuning rule                          *)

MaxRulesTime == 8

\* the high alarm sits above every reading, so a run raises no alert
InitRules ==
    /\ now = 1
    /\ db = [PersistedCook(FALSE) EXCEPT
                !.settings = [WindowSettings EXCEPT !.hi_alarm_c = 150]]
    /\ ctl = Boot(db)
    /\ tasks = [i \in Slots |-> IdleTask]
    /\ stop_waiting = {}
    /\ am = NewAlertManager
    /\ obs = NoHistory
    /\ pm = NewPhaseManager
    /\ ws = NewConnectionManager

AdvanceRules == ctl.autotune_active /\ Clock(MaxRulesTime)

NextRules ==
    \/ Start
    \/ \E i \in Slots : Tick(i)
    \/ \E r \in TuneReadings : MonitoringRead(r)
    \/ \E rule \in TuningRules : RequestAutotune(rule)
    \/ AdvanceRules

SpecRules == InitRules /\ [][NextRules]_vars

\* C20: whenever the controller holds a tuner in state succeeded, get_gains
\* returns the (kp, ki, kd) triple the selected tuning rule computed.
SucceededTunerReturnsGains ==
    (HasTuner(ctl) /\ ctl.autotuner.state = "succeeded")
        => TunerGetGains(ctl.autotuner)
              = <<ctl.autotuner.kp, ctl.autotuner.ki, ctl.autotuner.kd>>

----------------------------------------------------------------------------
(* An auto-tune run that never oscillates, up to the tuner's time limit    *)

MaxTimeoutTime == 1803

\* the control thermocouple stays above the setpoint or faults
TimeoutReadings == {r \in Readings : r.temp_c # 96}

InitTimeout ==
    /\ now = 1
    /\ db = [PersistedCook(FALSE) EXCEPT
                !.settings = [WindowSettings EXCEPT !.hi_alarm_c = 150]]
    /\ ctl = Boot(db)
    /\ tasks = [i \in Slots |-> IdleTask]
    /\ stop_waiting = {}
    /\ am = NewAlertManager
    /\ obs = NoHistory
    /\ pm = NewPhaseManager
    /\ ws = NewConnectionManager

\* one run is followed, from its start request to its end
AdvanceTimeout ==
    ctl.autotune_active /\ ctl.released = NoRelease /\ Clock(MaxTimeoutTime)

NextTimeout ==
    \/ Start
    \/ \E i \in Slots : Tick(i)
    \/ \E r \in TimeoutReadings : MonitoringRead(r)
    \/ (ctl.running /\ ~ctl.autotune_active /\ ctl.released = NoRelease
          /\ RequestAutotune("tyreus_luyben"))
    \/ (ctl.autotune_active /\ CancelAutotuneRequest)
    \/ AdvanceTimeout

SpecTimeout == InitTimeout /\ [][NextTimeout]_vars

\* C19: when a run ends with its tuner failed (time limit, cancel, or a
\* control-sensor fault), the tuner's output is 0, auto-tune mode is left,
\* and the live and persisted PID gains are those recorded when the run
\* started.
FailedRunRestores ==
    [][(ctl.autotune_active /\ HasTuner(ctl) /\ ~HasTuner(ctl')
          /\ ctl'.released.state = "failed")
          => /\ ctl'.released.output = 0
             /\ ~ctl'.autotune_active
             /\ RunGains(ctl', db') = obs.tune_gains]_vars

\* a run ended at the tuner's time limit: no cancel was requested and the
\* sensor reads
RunTimedOutSeen ==
    /\ ctl.released.state = "failed"
    /\ ~ctl.autotune_active
    /\ obs.request = "autotune"
    /\ ~ControlFault(ctl)
    /\ \E i \in Slots : tasks[i].tick_start # None
                          /\ tasks[i].tick_start > 1 + MaxTimeMinutes * 60

----------------------------------------------------------------------------
(* The tick's Reading log: commits that fail, ticks on a faulted sensor    *)

MaxLogTime == 3

AdvanceLog == Clock(MaxLogTime)

NextLog ==
    \/ Start
    \/ \E i \in Slots : Tick(i)
    \/ \E i \in Slots, out \in LogOutcomes : TickLogFails(i, out)
    \/ \E r \in Readings : MonitoringRead(r)
    \/ AdvanceLog

SpecLog == InitAlert /\ [][NextLog]_vars

\* C23: persistence never holds a Reading row of a tick without that
\* tick's channel rows.
ReadingHasChannels == db.readings.rows = db.readings.with_channels

\* C28: a tick that observes a control-channel fault forces the relay OFF,
\* appends exactly one Reading row and runs the alert evaluation.
FaultTickStillLogs ==
    [][\A i \in Slots :
          (AtLoopHead(i) /\ ctl.running /\ ControlFault(ctl)
             /\ tasks'[i] # tasks[i] /\ tasks'[i].tick_start = now)
          => /\ ~ctl'.relay_state /\ ~ctl'.driver_state
             /\ db'.readings.rows = db.readings.rows + 1
             /\ obs'.alerts_at = now]_vars

----------------------------------------------------------------------------
(* Auto-tune runs with the controller stopped and started again            *)

NextTuneLife ==
    \/ NextTune
    \/ StopBegin
    \/ \E i \in Slots : StopResume(i)
    \/ \E i \in Slots : CancelDeliver(i)
    \/ \E i \in Slots : LoopExit(i)

SpecTuneLife == InitTune /\ [][NextTuneLife]_vars

\* C30: while an auto-tune run is active the controller is running, the
\* control mode is time-proportional and no cook is attached.
AutotuneImpliesAllowedState ==
    ctl.autotune_active
        => /\ ctl.running
           /\ ctl.control_mode = TimeProportional
           /\ ~Truthy(ctl.active_smoke_id)

\* C29: a control tick that begins with the tuner in a terminal state ends
\* with auto-tune mode left.
TerminalTunerLeavesAutotune ==
    [][\A i \in Slots :
          (AtLoopHead(i) /\ ctl.running /\ ctl.autotune_active /\ HasTuner(ctl)
             /\ ctl.autotuner.state \in {"succeeded", "failed"}
             /\ tasks'[i] # tasks[i] /\ tasks'[i].tick_start = now)
          => ~ctl'.autotune_active]_vars

----------------------------------------------------------------------------
(* PIDController.compute called directly, with gain and setpoint changes   *)

MaxPidTime == 4

\* gain triples set between computes, thousandths
PidGainChoices == {<<4000, 100, 20000>>, <<8000, 100, 20000>>, <<4000, 0, 20000>>}

\* setpoints passed to compute, degrees C
PidSetpoints == {100, 110}

\* output resolution allowed for fixed-point rounding, thousandths of a percent
PidTolerance == 10

\* pid.compute(setpoint, current_value) at the present time
ComputePid(setpoint, current_value) ==
    /\ ctl' = [ctl EXCEPT !.pid = PIDCompute(@, setpoint, current_value, now)]
    /\ obs' = [obs EXCEPT !.compute = <<setpoint, current_value>>]
    /\ UNCHANGED <<now, tasks, stop_waiting, am, db, pm, ws>>

\* pid.set_gains between two computes
SetGainsPid(g) ==
    /\ ctl' = SetPidGains(ctl, g[1], g[2], g[3])
    /\ UNCHANGED <<now, tasks, stop_waiting, am, db, obs, pm, ws>>

AdvancePid ==
    /\ now < MaxPidTime
    /\ now' = now + 1
    /\ UNCHANGED <<ctl, tasks, stop_waiting, am, db, obs, pm, ws>>

NextPid ==
    \/ \E sp \in PidSetpoints, cv \in Temps : ComputePid(sp, cv)
    \/ \E g \in PidGainChoices : SetGainsPid(g)
    \/ AdvancePid

SpecPid == InitWindow /\ [][NextPid]_vars

\* C27: when the gains or the setpoint changed since the previous compute
\* and the measurement did not, the output equals the previous output plus
\* the integral contribution ki * error * dt of the new interval.
BumplessOutput ==
    [][(/\ ctl.pid.last_time # None
        /\ ctl.pid.last_time < now
        /\ ctl'.pid.last_time = now
        /\ obs.compute # <<>>
        /\ obs'.compute[2] = obs.compute[2]
        /\ \/ ctl'.pid.last_setpoint # ctl.pid.last_setpoint
           \/ ctl'.pid.last_gains # ctl.pid.last_gains)
          => Abs(ctl'.pid.last_output
                   - Clamp(ctl.pid.last_output
                             + ctl'.pid.ki * ctl'.pid.last_error
                                 * (now - ctl.pid.last_time),
                           OutputMin, OutputMax)) <= PidTolerance]_vars
----------------------------------------------------------------------------
(* The adaptive tuner over a long time-proportional run                    *)

MaxAdaptiveTime == 845
MaxAdaptiveRequests == 3

\* the instants at which the operator sends requests during the run
ToggleTimes == {300}

\* the control thermocouple sits 4 C under the setpoint throughout
AdaptiveReadings == {r \in Readings : r.temp_c = 96}

\* gains POST /control/pid accepts: any non-negative ones
AdaptiveGainChoices == {<<4000, 0, 20000>>, <<20000, 100, 20000>>}

InitAdaptive ==
    /\ now = 1
    /\ db = [settings |-> [WindowSettings EXCEPT !.hi_alarm_c = 150],
             alerts |-> <<>>, smokes |-> <<>>, phases |-> <<>>,
             readings |-> NoReadings]
    /\ ctl = NewController(db.settings)
    /\ tasks = [i \in Slots |-> IdleTask]
    /\ stop_waiting = {}
    /\ am = NewAlertManager
    /\ obs = NoHistory
    /\ pm = NewPhaseManager
    /\ ws = NewConnectionManager

OperatorAtDesk ==
    ctl.running /\ now \in ToggleTimes /\ obs.requests < MaxAdaptiveRequests

\* SmokerController.enable_adaptive_pid
EnableAdaptivePid ==
    /\ OperatorAtDesk
    /\ ctl.control_mode = TimeProportional
    /\ ctl' = [ctl EXCEPT !.adaptive_pid.enabled = TRUE]
    /\ db' = [db EXCEPT !.settings.adaptive_pid_enabled = TRUE]
    /\ obs' = Served(obs)
    /\ UNCHANGED <<now, tasks, stop_waiting, am, pm, ws>>

\* SmokerController.disable_adaptive_pid
DisableAdaptivePid ==
    /\ OperatorAtDesk
    /\ ctl' = [ctl EXCEPT !.adaptive_pid.enabled = FALSE]
    /\ db' = [db EXCEPT !.settings.adaptive_pid_enabled = FALSE]
    /\ obs' = Served(obs)
    /\ UNCHANGED <<now, tasks, stop_waiting, am, pm, ws>>

\* POST /control/pid with the timing parameters left as they are
PostPidGains(g) ==
    /\ OperatorAtDesk
    /\ ctl' = SetPidGains(ctl, g[1], g[2], g[3])
    /\ obs' = Served(obs)
    /\ UNCHANGED <<now, tasks, stop_waiting, am, db, pm, ws>>

SwitchMode(mode) == OperatorAtDesk /\ SetControlMode(mode)

AdvanceAdaptive == ctl.running /\ Clock(MaxAdaptiveTime)

NextAdaptive ==
    \/ Start
    \/ \E i \in Slots : Tick(i)
    \/ \E r \in AdaptiveReadings : MonitoringRead(r)
    \/ EnableAdaptivePid
    \/ DisableAdaptivePid
    \/ \E g \in AdaptiveGainChoices : PostPidGains(g)
    \/ \E mode \in {Thermostat, TimeProportional} : SwitchMode(mode)
    \/ AdvanceAdaptive

SpecAdaptive == InitAdaptive /\ [][NextAdaptive]_vars

\* a step in which the adaptive tuner adjusted the gains
AdjustmentStep ==
    ctl'.adaptive_pid.adjustment_count = ctl.adaptive_pid.adjustment_count + 1

\* C21: any two adjustments of the adaptive tuner are at least
\* adjustment_cooldown (600 s) apart, whatever ticks, enable/disable calls and
\* mode switches lie between them: an adjustment stamps its time, nothing else
\* changes the stamp, and an adjustment happens only a cooldown after the stamp
AdjustmentsCooledDown ==
    [][IF AdjustmentStep
       THEN /\ \/ ctl.adaptive_pid.last_adjustment_time = None
               \/ now - ctl.adaptive_pid.last_adjustment_time >= AdjustmentCooldown
            /\ ctl'.adaptive_pid.last_adjustment_time = now
       ELSE ctl'.adaptive_pid.last_adjustment_time
              = ctl.adaptive_pid.last_adjustment_time]_vars

\* a second adjustment was made, after the operator sent requests
SecondAdjustmentSeen ==
    ctl.adaptive_pid.adjustment_count >= 2 /\ obs.requests >= 2

WithinRate(old, new) == 1000 * Abs(new - old) <= AdjustmentRate * old

\* C22: every adaptive adjustment moves each gain by at most adjustment_rate
\* (5%) of the current gain and leaves it within its bounds
AdjustmentBounded ==
    [][AdjustmentStep =>
         /\ WithinRate(ctl.pid.kp, ctl'.pid.kp)
         /\ WithinRate(ctl.pid.ki, ctl'.pid.ki)
         /\ WithinRate(ctl.pid.kd, ctl'.pid.kd)
         /\ ctl'.pid.kp \in MinKp..MaxKp
         /\ ctl'.pid.ki \in MinKi..MaxKi
         /\ ctl'.pid.kd \in MinKd..MaxKd]_vars
----------------------------------------------------------------------------
(* Construction against real hardware                                      *)

MaxHardwareTime == 3

\* a settings row with simulation switched off
HardwareSettings ==
    [DefaultSettings EXCEPT !.sim_mode = FALSE, !.webhook_url = FALSE,
                            !.hi_alarm_c = 150]

\* SmokerController.__init__ outside simulation: RealRelayDriver holds a GPIO
\* device only if acquiring it succeeded (_initialize_gpio), and the
\* thermocouple manager holds simulated sensors for the thermocouples it could
\* not initialise (add_thermocouple, has_fallback_sensors)
Constructed(c, gpio_acquired, tc_fallback) ==
    [c EXCEPT !.gpio_device = ~c.sim_mode /\ gpio_acquired,
              !.using_fallback = ~c.sim_mode /\ tc_fallback]

InitHardware ==
    /\ now = 1
    /\ db = [settings |-> HardwareSettings, alerts |-> <<>>, smokes |-> <<>>,
             phases |-> <<>>, readings |-> NoReadings]
    /\ \E gpio_acquired \in BOOLEAN, tc_fallback \in BOOLEAN :
          ctl = Constructed(NewController(HardwareSettings), gpio_acquired, tc_fallback)
    /\ tasks = [i \in Slots |-> IdleTask]
    /\ stop_waiting = {}
    /\ am = NewAlertManager
    /\ obs = NoHistory
    /\ pm = NewPhaseManager
    /\ ws = NewConnectionManager

AdvanceHardware == Clock(MaxHardwareTime)

NextHardware ==
    \/ Start
    \/ \E i \in Slots : Tick(i)
    \/ \E r \in Readings : MonitoringRead(r)
    \/ AdvanceHardware

SpecHardware == InitHardware /\ [][NextHardware]_vars

\* C24: when acquiring the relay's GPIO device failed outside simulation, the
\* driver runs simulated and a hardware_fallback alert is active once the
\* alert engine has checked
RelayFallbackAlerted ==
    (~ctl.sim_mode /\ ~ctl.gpio_device /\ obs.alerts_at # None)
        => "hardware_fallback" \in DOMAIN am.active_alerts


----------------------------------------------------------------------------
(* The WebSocket manager: broadcasts against connects and disconnects      *)

Elements(seq) == {seq[i] : i \in 1..Len(seq)}

\* list.remove(x): the list without its first occurrence of x
RECURSIVE ListRemove(_, _)
ListRemove(seq, x) ==
    IF seq = <<>> THEN <<>>
    ELSE IF Head(seq) = x THEN Tail(seq)
    ELSE <<Head(seq)>> \o ListRemove(Tail(seq), x)

\* ConnectionManager.disconnect
Disconnect(w, c) ==
    IF c \in Elements(w.active_connections)
    THEN [w EXCEPT !.active_connections = ListRemove(@, c)]
    ELSE w

\* broadcast, the final loop: disconnect every connection of to_remove
RECURSIVE RemoveDead(_, _)
RemoveDead(w, dead) ==
    IF dead = <<>> THEN w ELSE RemoveDead(Disconnect(w, Head(dead)), Tail(dead))

\* a broadcast that returned, in the pair (manager, history)
Returned(wh) ==
    [w |-> [RemoveDead(wh.w, wh.w.bc.to_remove) EXCEPT !.bc = IdleBroadcast],
     h |-> [wh.h EXCEPT !.returned = TRUE,
                        !.left = Elements(RemoveDead(wh.w, wh.w.bc.to_remove)
                                              .active_connections)]]

\* broadcast, the for loop from the iterator's position up to the next
\* send_text (where the call suspends) or to the end of the list: the list
\* iterator yields active_connections[index] as long as index < len
RECURSIVE Iterate(_)
Iterate(wh) ==
    IF wh.w.bc.index >= Len(wh.w.active_connections) THEN Returned(wh)
    ELSE IF wh.w.client_state[wh.w.active_connections[wh.w.bc.index + 1]] = "connected"
    THEN [w |-> [wh.w EXCEPT !.bc.pc = "send", !.bc.index = @ + 1,
                             !.bc.current = wh.w.active_connections[wh.w.bc.index + 1]],
          h |-> [wh.h EXCEPT !.tried = @ \cup {wh.w.active_connections[wh.w.bc.index + 1]}]]
    ELSE Iterate([w |-> [wh.w EXCEPT !.bc.index = @ + 1,
                                     !.bc.to_remove =
                                         Append(@, wh.w.active_connections[wh.w.bc.index + 1])],
                  h |-> [wh.h EXCEPT
                            !.tried = @ \cup {wh.w.active_connections[wh.w.bc.index + 1]},
                            !.failed = @ \cup {wh.w.active_connections[wh.w.bc.index + 1]}]])

\* the pair after send_text to the current connection ended, accepted or not
AfterSend(wh, accepted) ==
    IF accepted THEN wh
    ELSE [w |-> [wh.w EXCEPT !.bc.to_remove = Append(@, wh.w.bc.current)],
          h |-> [wh.h EXCEPT !.failed = @ \cup {wh.w.bc.current}]]

Broadcasting(wh) ==
    /\ ws' = wh.w
    /\ obs' = [obs EXCEPT !.broadcast = wh.h]
    /\ UNCHANGED <<now, ctl, tasks, stop_waiting, am, db, pm>>

\* ConnectionManager.connect: accept, then append
Connect(c) ==
    /\ ws.client_state[c] = "connecting"
    /\ ws' = [ws EXCEPT !.client_state[c] = "connected",
                        !.active_connections = Append(@, c)]
    /\ UNCHANGED <<now, ctl, tasks, stop_waiting, am, db, obs, pm>>

\* websocket_endpoint: receive_text raises WebSocketDisconnect, the handler
\* calls manager.disconnect
EndpointDisconnect(c) ==
    /\ ws.client_state[c] = "connected"
    /\ ws' = [Disconnect(ws, c) EXCEPT !.client_state[c] = "disconnected"]
    /\ obs' = [obs EXCEPT !.broadcast.attached =
                              IF ws.bc.pc = "idle" THEN @ ELSE @ \ {c}]
    /\ UNCHANGED <<now, ctl, tasks, stop_waiting, am, db, pm>>

\* ConnectionManager.broadcast up to its first suspension
BroadcastBegin ==
    /\ ws.bc.pc = "idle"
    /\ obs.broadcasts < MaxBroadcasts
    /\ ws.active_connections # <<>>
    /\ \E wh \in {Iterate([w |-> ws,
                            h |-> [NoBroadcast EXCEPT
                                      !.attached = Elements(ws.active_connections)]])} :
          /\ ws' = wh.w
          /\ obs' = [obs EXCEPT !.broadcast = wh.h, !.broadcasts = @ + 1]
    /\ UNCHANGED <<now, ctl, tasks, stop_waiting, am, db, pm>>

\* ConnectionManager.broadcast resumed when send_text ended, up to its next
\* suspension or its return
BroadcastResume(accepted) ==
    /\ ws.bc.pc = "send"
    /\ Broadcasting(Iterate(AfterSend([w |-> [ws EXCEPT !.bc.pc = "iter"],
                                        h |-> obs.broadcast], accepted)))

NextBroadcast ==
    \/ \E c \in Conns : Connect(c)
    \/ \E c \in Conns : EndpointDisconnect(c)
    \/ BroadcastBegin
    \/ \E accepted \in BOOLEAN : BroadcastResume(accepted)

SpecBroadcast == InitAlert /\ [][NextBroadcast]_vars

\* C25: a broadcast that returned has tried every observer that was attached
\* from its start to its return, has dropped every observer that failed to
\* accept or was no longer connected, and has dropped none of the others,
\* whatever connected or disconnected while it was suspended in a send
BroadcastReachesAttached ==
    obs.broadcast.returned =>
        /\ obs.broadcast.attached \subseteq obs.broadcast.tried
        /\ obs.broadcast.failed \cap obs.broadcast.left = {}
        /\ (obs.broadcast.attached \ obs.broadcast.failed) \subseteq obs.broadcast.left


----------------------------------------------------------------------------
(* The filtered thermocouple reader                                        *)

MaxReads == 4
MaxFilterTime == 3

\* what _read_raw returns: a temperature in hundredths of a degree C, or
\* (None, True) for a fault bit, a non-finite or an out-of-range value
RawFault == [temp_c |-> None, fault |-> TRUE]
RawSamples == {RawFault} \cup {[temp_c |-> x, fault |-> FALSE] : x \in {10000, 11000, 11100}}

\* abs(_c_to_f(a) - _c_to_f(b)) > limit_f, for a and b in hundredths of a
\* degree C: the difference in F is 9/5 of the difference in C
DiffFOver(a, b, limit_f) == 9 * Abs(a - b) > 500 * limit_f

\* read_filtered, outlier detection against the last good reading
SuspectSample(rd, temp_c, t) ==
    /\ rd.last_good_reading # None
    /\ \/ DiffFOver(temp_c, rd.last_good_reading, MaxTempJumpF)
       \/ /\ rd.last_reading_time # None
          /\ t - rd.last_reading_time > 0
          /\ DiffFOver(temp_c, rd.last_good_reading,
                       MaxRateFPerSec * (t - rd.last_reading_time))

\* the k-th smallest element of a sequence
KthSmallest(xs, k) ==
    CHOOSE v \in Elements(xs) :
        /\ Cardinality({i \in 1..Len(xs) : xs[i] < v}) < k
        /\ k <= Cardinality({i \in 1..Len(xs) : xs[i] <= v})

\* statistics.median
Median(xs) ==
    IF Len(xs) % 2 = 1 THEN KthSmallest(xs, (Len(xs) + 1) \div 2)
    ELSE (KthSmallest(xs, Len(xs) \div 2) + KthSmallest(xs, Len(xs) \div 2 + 1)) \div 2

\* a rejection that forgets the median window
RejectedForgets(rd) ==
    [reader |-> [rd EXCEPT !.window = <<>>], temp |-> rd.last_good_reading,
     fault |-> TRUE]

\* read_filtered, a rejected sample: the last good reading, or None, with
\* fault = True
Rejected(rd) == [reader |-> rd, temp |-> rd.last_good_reading, fault |-> TRUE]

\* read_filtered, an accepted sample temp_c: window, median, last good
\* reading and time
Accepted(rd, temp_c, t) ==
    [reader |-> [rd EXCEPT
                    !.window = IF Len(@) >= WindowSize THEN Append(Tail(@), temp_c)
                               ELSE Append(@, temp_c),
                    !.last_good_reading =
                        IF Len(rd.window) + 1 >= MedianMinSamples
                        THEN Median(IF Len(rd.window) >= WindowSize
                                    THEN Append(Tail(rd.window), temp_c)
                                    ELSE Append(rd.window, temp_c))
                        ELSE temp_c,
                    !.last_reading_time = t],
     temp |-> IF Len(rd.window) + 1 >= MedianMinSamples
              THEN Median(IF Len(rd.window) >= WindowSize
                          THEN Append(Tail(rd.window), temp_c)
                          ELSE Append(rd.window, temp_c))
              ELSE temp_c,
     fault |-> FALSE]

\* _read_raw, the faults_detected counter
Counted(rd, raw) == IF raw.fault THEN [rd EXCEPT !.faults_detected = @ + 1] ELSE rd

\* read_filtered, the double read of a suspect sample
DoubleRead(rd, raw1, raw2, t) ==
    IF raw2.fault \/ DiffFOver(raw1.temp_c, raw2.temp_c, DoubleReadAgreeF)
    THEN Rejected([Counted(rd, raw2) EXCEPT !.outliers_rejected = @ + 1])
    ELSE Accepted(rd, (raw1.temp_c + raw2.temp_c) \div 2, t)

\* FilteredThermocoupleReader.read_filtered called at t, the sensor giving
\* raw1 and, if read again, raw2
ReadFilteredOn(rd, raw1, raw2, t) ==
    IF raw1.fault THEN Rejected(Counted(rd, raw1))
    ELSE IF SuspectSample(rd, raw1.temp_c, t) THEN DoubleRead(rd, raw1, raw2, t)
    ELSE Accepted(rd, raw1.temp_c, t)

ReadFiltered(raw1, raw2) ==
    /\ obs.reads < MaxReads
    /\ \E r \in {ReadFilteredOn(ctl.reader, raw1, raw2, now)} :
          /\ ctl' = [ctl EXCEPT !.reader = r.reader]
          /\ obs' = [obs EXCEPT !.reads = @ + 1,
                                !.read = [raw |-> <<raw1, raw2>>, temp |-> r.temp,
                                          fault |-> r.fault]]
    /\ UNCHANGED <<now, tasks, stop_waiting, am, db, pm, ws>>

AdvanceFilter ==
    /\ now < MaxFilterTime
    /\ now' = now + 1
    /\ UNCHANGED <<ctl, tasks, stop_waiting, am, db, obs, pm, ws>>

NextFilter ==
    \/ \E raw1 \in RawSamples, raw2 \in RawSamples : ReadFiltered(raw1, raw2)
    \/ AdvanceFilter

SpecFilter == InitAlert /\ [][NextFilter]_vars

\* the call rejects its sample: the first read faults, or the sample is
\* suspect and the second read faults or disagrees by more than 2 F
RejectingRead(rd, raw1, raw2, t) ==
    \/ raw1.fault
    \/ /\ SuspectSample(rd, raw1.temp_c, t)
       /\ \/ raw2.fault
          \/ DiffFOver(raw1.temp_c, raw2.temp_c, DoubleReadAgreeF)

\* C26: a read_filtered call that rejects its sample returns the last good
\* reading (None if there never was one) with fault = true and leaves the
\* median window, the last good reading and the last accepted time unchanged
RejectionKeepsReader ==
    [][(/\ obs'.reads = obs.reads + 1
        /\ RejectingRead(ctl.reader, obs'.read.raw[1], obs'.read.raw[2], now))
         => /\ obs'.read.temp = ctl.reader.last_good_reading
            /\ obs'.read.fault
            /\ ctl'.reader.window = ctl.reader.window
            /\ ctl'.reader.last_good_reading = ctl.reader.last_good_reading
            /\ ctl'.reader.last_reading_time = ctl.reader.last_reading_time]_vars

\* a suspect sample was rejected by its second read while a good reading
\* and a window of three samples existed
DoubleReadRejectionSeen ==
    /\ obs.reads > 0
    /\ obs.read.fault
    /\ ~obs.read.raw[1].fault
    /\ obs.read.temp # None
    /\ Len(ctl.reader.window) >= MedianMinSamples

----------------------------------------------------------------------------
(* The thermostat strategy over the temperatures around its band           *)

MaxThermostatTime == 3
MaxThermostatCalls == 4

\* temperatures from below setpoint - hyst to above setpoint + hyst, degrees C
BandTemps == 97..103

\* ThermostatStrategy.execute / _thermostat_control called with temp_c
ExecuteThermostat(temp_c) ==
    /\ obs.ticks < MaxThermostatCalls
    /\ ctl' = ThermostatControl(ctl, temp_c, now)
    /\ obs' = [obs EXCEPT !.ticks = @ + 1, !.compute = <<temp_c>>]
    /\ UNCHANGED <<now, tasks, stop_waiting, am, db, pm, ws>>

AdvanceThermostat ==
    /\ now < MaxThermostatTime
    /\ now' = now + 1
    /\ UNCHANGED <<ctl, tasks, stop_waiting, am, db, obs, pm, ws>>

NextThermostat ==
    \/ \E temp_c \in BandTemps : ExecuteThermostat(temp_c)
    \/ AdvanceThermostat

SpecThermostat == InitAlert /\ [][NextThermostat]_vars

\* C40: on every thermostat call an OFF intent becomes ON iff
\* temp < setpoint - hyst, an ON intent stays ON iff temp < setpoint + hyst,
\* and pid_output is 100 with the intent ON and 0 otherwise
HysteresisRule ==
    [][obs'.ticks = obs.ticks + 1 =>
         /\ ~ctl.output_bool =>
               (ctl'.output_bool <=> obs'.compute[1] < ctl.setpoint_c - ctl.hyst_c)
         /\ ctl.output_bool =>
               (ctl'.output_bool <=> obs'.compute[1] < ctl.setpoint_c + ctl.hyst_c)
         /\ ctl'.pid_output = IF ctl'.output_bool THEN 100000 ELSE 0]_vars

\* the intent stayed ON inside the band, at a temperature at which an OFF
\* intent would not have turned ON
HeldOnInsideBand ==
    /\ obs.ticks >= 2
    /\ ctl.output_bool
    /\ obs.compute[1] >= ctl.setpoint_c - ctl.hyst_c
    /\ obs.compute[1] < ctl.setpoint_c + ctl.hyst_c

----------------------------------------------------------------------------
(* Boost against the strategies                                            *)

\* slot i runs a whole loop iteration in this step
TickStep(i) ==
    AtLoopHead(i) /\ ctl.running /\ tasks'[i] # tasks[i] /\ tasks'[i].tick_start = now

\* what the normal strategy decides at this tick once boost is cleared
NormalDecision ==
    Strategy([c |-> DisableBoost(ctl), set |-> db.settings],
             ControlReading(ctl).temp_c, now).c

----------------------------------------------------------------------------
(* The proportional-only duty window scenario                              *)

MaxScenarioTime == 45

\* kp = 10, ki = 0, kd = 0, a 10 s window, time-proportional mode
ScenarioSettings ==
    [WindowSettings EXCEPT !.kp = 10000, !.ki = 0, !.kd = 0, !.time_window_s = 10]

\* the control thermocouple reads 98 C throughout
ScenarioReadings == {[temp_c |-> 98, fault |-> FALSE]}

\* the controller once the always-on monitoring loop has taken its first
\* reading, before start()
InitScenario ==
    /\ now = 1
    /\ db = [settings |-> ScenarioSettings, alerts |-> <<>>, smokes |-> <<>>,
             phases |-> <<>>, readings |-> NoReadings]
    /\ ctl = [NewController(ScenarioSettings) EXCEPT
                 !.tc_readings = <<[temp_c |-> 98, fault |-> FALSE]>>,
                 !.current_temp_c = 98, !.monitoring_wake = 2]
    /\ tasks = [i \in Slots |-> IdleTask]
    /\ stop_waiting = {}
    /\ am = NewAlertManager
    /\ obs = NoHistory
    /\ pm = NewPhaseManager
    /\ ws = NewConnectionManager

AdvanceScenario == ctl.running /\ Clock(MaxScenarioTime)

NextScenario ==
    \/ Start
    \/ \E i \in Slots : Tick(i)
    \/ \E r \in ScenarioReadings : MonitoringRead(r)
    \/ AdvanceScenario

SpecScenario == InitScenario /\ [][NextScenario]_vars

\* C39: with kp = 10, ki = kd = 0, setpoint 100, temperature 98 and a 10 s
\* window, after every tick pid_output is 20 and the relay is ON exactly in
\* the first 2 s of each 10 s window counted from the first tick (at 1 s)
ScenarioDuty ==
    obs.alerts_at # None =>
        /\ ctl.pid_output = 20000
        /\ ctl.relay_state <=> ((obs.alerts_at - 1) % 10 < 2)

----------------------------------------------------------------------------
\* Stuck-high alert: a smoker that warms with the relay OFF and then cools
\* below the thermostat band, so that the relay switches ON

MaxStuckTime == 4
StuckTemps == {97, 99, 100}
StuckReadings == {[temp_c |-> x, fault |-> FALSE] : x \in StuckTemps}

\* temp_rate_per_min > rate_threshold over the last 10 readings of the
\* history (alerts.py:141-155), cross-multiplied
RateOverThreshold(hist, threshold) ==
    (hist[Len(hist)].temp - LastN(hist, RecentReadings)[1].temp) * 60
        > threshold * Len(LastN(hist, RecentReadings))

AdvanceStuck == ctl.running /\ Clock(MaxStuckTime)

NextStuck ==
    \/ Start
    \/ \E i \in Slots : Tick(i)
    \/ \E r \in StuckReadings : MonitoringRead(r)
    \/ AdvanceStuck

SpecStuck == InitAlert /\ [][NextStuck]_vars

\* C36: once an alert evaluation has seen a windowed rise rate at or below
\* the configured threshold, no stuck_high alert is active
StuckHighClearedAtLowRate ==
    (/\ obs.alerts_at # None
     /\ Len(am.temp_history) >= 2
     /\ ~RateOverThreshold(am.temp_history, db.settings.stuck_high_c))
        => "stuck_high" \notin DOMAIN am.active_alerts

\* C37: the in-memory active map agrees with persistence: a key is in
\* active_alerts exactly when an Alert row of that type is active, and it
\* maps to that row's id (also right after the engine is constructed again)
ActiveMapAgreesWithRows ==
    \A key \in AlertKeys :
        /\ key \in DOMAIN am.active_alerts <=> ActiveRows(key) # {}
        /\ key \in DOMAIN am.active_alerts => ActiveRows(key) = {am.active_alerts[key]}

\* C34: once the transition out of the cook's last phase is approved
\* (current_phase_id empty), current_phase_id stays empty, no phase of the
\* cook is active and the live setpoint does not change under ticks and
\* further approve or skip calls
CompletedCookStaysComplete ==
    [][db.smokes[1].current_phase_id = None
          => /\ PhasePosition(db', 1) = <<None, {}>>
             /\ ctl'.setpoint_f = ctl.setpoint_f]_vars

\* C33: a control tick of an auto-tune run never changes the live PID gains
\* or the persisted settings, also when the run reaches succeeded on it
TickLeavesTunedGainsUnapplied ==
    [][\A i \in Slots :
          (TickStep(i) /\ ctl.autotune_active /\ HasTuner(ctl))
          => /\ RunGains(ctl', db') = RunGains(ctl, db)
             /\ db'.settings = db.settings]_vars

----------------------------------------------------------------------------------------------------------------------------------------
(* One auto-tune run to its end, with the loops scheduled fairly            *)

\* a control loop task is at its loop head: _control_iteration can run
TickDue == ctl.running /\ \E i \in Slots : AtLoopHead(i)

\* a step in which a control loop task ran an iteration
TickTaken ==
    \E i \in Slots : AtLoopHead(i) /\ tasks'[i] # tasks[i] /\ tasks'[i].tick_start = now

\* the control loop and the monitoring loop each sleep one second and run
\* again, and time passes.  The first fairness condition is weak fairness of
\* the control tick, written with TickDue for its enabling condition.
SpecTimeoutFair ==
    /\ InitTimeout
    /\ [][NextTimeout]_vars
    /\ ([]<>(~TickDue) \/ []<><<TickTaken>>_vars)
    /\ WF_vars(\E r \in TimeoutReadings : MonitoringRead(r))
    /\ WF_vars(AdvanceTimeout)

\* the tuner of the run: the controller's, or the one it let go of
TunerOf(c) == IF HasTuner(c) THEN Released(c.autotuner) ELSE c.released

TuneEnded(c) ==
    TunerOf(c).state \in {"succeeded", "failed"} /\ TunerOf(c).output = 0

\* C32: a started auto-tune run ends: its tuner is succeeded or failed with
\* output 0 after the first tick later than max_time_minutes from its start
\* at the latest, and an ended tuner never changes again
AutotuneTerminates ==
    /\ (ctl.autotune_active /\ HasTuner(ctl)) ~> TuneEnded(ctl)
    /\ [][\A i \in Slots :
             (TickStep(i) /\ HasTuner(ctl)
                /\ now - ctl.autotuner.start_time > MaxTimeMinutes * 60)
             => TuneEnded(ctl')]_vars
    /\ [][TuneEnded(ctl) => TunerOf(ctl') = TunerOf(ctl)]_vars

\* a run that neither oscillated to success nor was cancelled ended at the
\* time limit
RunEndedAtLimit ==
    /\ TuneEnded(ctl)
    /\ ctl.released.state = "failed"
    /\ obs.request = "autotune"
    /\ ~ControlFault(ctl)
    /\ now > 1 + MaxTimeMinutes * 60

----------------------------------------------------------------------------
(* Thermocouple configuration reloaded while the loops run                  *)

\* SmokerController.reload_thermocouples after a thermocouple that is not
\* the control one was created: tc_readings is emptied, the control
\* thermocouple of the store is selected again
ReloadThermocouples ==
    /\ obs.requests < MaxRequests
    /\ ctl' = [ctl EXCEPT !.tc_readings = <<>>]
    /\ obs' = ServedAs(obs, "reload")
    /\ UNCHANGED <<now, tasks, stop_waiting, am, db, pm, ws>>

\* the control thermocouple never faults
ReloadReadings == {r \in Readings : ~r.fault}

NextReload ==
    \/ Start
    \/ \E i \in Slots : Tick(i)
    \/ \E r \in ReloadReadings : MonitoringRead(r)
    \/ ReloadThermocouples
    \/ AdvanceAlert

SpecReload == InitAlert /\ [][NextReload]_vars

\* C31: with a control sensor whose every read is good, no control tick
\* after the first monitoring pass takes the sensor-fault branch, also when
\* the thermocouples were reloaded
NoFaultTickOnGoodReads ==
    [][\A i \in Slots :
          (TickStep(i) /\ ctl.monitoring_wake > 1)
          => /\ ~ControlFault(ctl)
             /\ obs'.last_tick # "fault"]_vars

----------------------------------------------------------------------------
(* Relay pin and polarity changed through the settings route               *)

GpioPins == {17, 27}

\* SmokerController.update_relay_settings: in simulation nothing is applied;
\* outside it the driver is a RealRelayDriver, which has no reinitialize
\* method, so the call logs a warning and returns False
UpdateRelaySettings(c, gpio_pin, relay_active_high) == c

\* PUT /settings with gpio_pin and relay_active_high and sim_mode unchanged:
\* the row is committed, then update_relay_settings is called
PutGpioSettings(gpio_pin, relay_active_high) ==
    /\ obs.requests < MaxRequests
    /\ db' = [db EXCEPT !.settings.gpio_pin = gpio_pin,
                        !.settings.relay_active_high = relay_active_high]
    /\ ctl' = UpdateRelaySettings(ctl, gpio_pin, relay_active_high)
    /\ obs' = ServedAs(obs, "gpio")
    /\ UNCHANGED <<now, tasks, stop_waiting, am, pm, ws>>

NextRelayPins ==
    \/ NextHardware
    \/ \E pin \in GpioPins, active_high \in BOOLEAN : PutGpioSettings(pin, active_high)

SpecRelayPins == InitHardware /\ [][NextRelayPins]_vars

\* C35: outside simulation the relay driver drives the pin, with the
\* polarity, that the settings row configures, also after a change at runtime
RelayDrivesConfiguredPin ==
    ~ctl.sim_mode => /\ ctl.driver_pin = db.settings.gpio_pin
                     /\ ctl.driver_active_high = db.settings.relay_active_high
====
